---- MODULE Spec2Model ----
(***************************************************************************)
(* Model of the WGSL compiler of cubecl-wgpu                               *)
(* (crates/cubecl-wgpu/src/compiler/wgsl/compiler.rs): the lowering of a   *)
(* kernel definition to a compute-shader record.                           *)
(*                                                                         *)
(* The compiler instance (struct WgslCompiler) is the record `self`; every *)
(* lowering function is an operator that takes the compiler state and      *)
(* returns the new state with its result, in the order the code evaluates. *)
(* A Rust panic is the result [ok |-> FALSE]: the compile is abandoned and *)
(* no shader record is produced.                                           *)
(***************************************************************************)
EXTENDS Integers, Sequences, FiniteSets, TLC

VARIABLES
    pc,         \* position of the compile call: "new", "body", "done", "panicked"
    target_os,  \* the build target (cfg(target_os)), fixed for a behaviour
    mode,       \* the ExecutionMode given to compile
    kernel,     \* the cube::KernelDefinition given to compile (inputs, outputs)
    self,       \* the WgslCompiler instance
    stack,      \* the active compile_scope calls, innermost last
    source,     \* the operations handed to compile_operation so far, in order
    lowered,    \* the cube::Variables handed to compile_variable, in call order
    shader,     \* the wgsl::ComputeShader returned, or NoShader
    scopes,     \* the cube::Scopes handed to compile_scope, as given and as left
    calls,      \* the compile calls that returned before this one
    pipeline,   \* what create_pipeline handed to the device, or NoPipeline
    storage,    \* the WgpuStorage instance
    client,     \* the handles and resources the storage returned to its callers
    matmul,     \* the units of a cube running the global Matmul::execute
    arg,        \* the cube::Item handed to the type mapper
    result      \* what the type mapper returned for arg

vars ==
    <<pc, target_os, mode, kernel, self, stack, source, lowered, shader, scopes,
      calls, pipeline, storage, client, matmul, arg, result>>

----------------------------------------------------------------------------
(* Bounds of the model. *)

MaxBindings == 3    \* num_inputs + num_outputs of a kernel
MaxMetaOps == 1     \* metadata operations in a kernel body
MaxBuiltinOps == 3  \* operations referencing built-ins in a kernel body
MaxArrayOps == 3    \* operations referencing shared memories / local arrays
MaxArrayId == 1     \* largest shared-memory / local-array id
MaxExtOps == 3      \* operations (leaf or branch) in a kernel body
MaxVectorization == 5  \* largest vectorization factor handed to compile_item

----------------------------------------------------------------------------
(* cube::Elem and cube::Item. *)

FloatKinds == {"F16", "BF16", "TF32", "Flex32", "F32", "F64"}
IntKinds == {"I8", "I16", "I32", "I64"}
UIntKinds == {"U8", "U16", "U32", "U64"}

Elems ==
    [ty : {"Float"}, kind : FloatKinds]
        \cup [ty : {"Int"}, kind : IntKinds]
        \cup [ty : {"UInt"}, kind : UIntKinds]
        \cup [ty : {"Bool"}, kind : {"Bool"}]
        \cup [ty : {"AtomicInt"}, kind : IntKinds]
        \cup [ty : {"AtomicUInt"}, kind : UIntKinds]

ElemF32 == [ty |-> "Float", kind |-> "F32"]
ElemU32 == [ty |-> "UInt", kind |-> "U32"]
ElemBool == [ty |-> "Bool", kind |-> "Bool"]

\* item.vectorization is Option<NonZero<u8>>: 0 stands for None.
Items == [elem : Elems, vectorization : 0..MaxVectorization]

ItemOf(elem, n) == [elem |-> elem, vectorization |-> n]

----------------------------------------------------------------------------
(* Type mapper. *)

PanicElem == "PANIC"

compile_elem_flex32_unsupported(value) ==
    CASE value.ty = "Float" ->
            (CASE value.kind = "F32" -> "F32"
               [] OTHER -> PanicElem)
      [] value.ty = "Int" ->
            (CASE value.kind = "I32" -> "I32"
               [] OTHER -> PanicElem)
      [] value.ty = "UInt" ->
            (CASE value.kind = "U32" -> "U32"
               [] OTHER -> PanicElem)
      [] value.ty = "Bool" -> "Bool"
      [] value.ty = "AtomicInt" ->
            (CASE value.kind = "I32" -> "AtomicI32"
               [] OTHER -> PanicElem)
      [] value.ty = "AtomicUInt" ->
            (CASE value.kind = "U32" -> "AtomicU32"
               [] OTHER -> PanicElem)

compile_elem(value) ==
    CASE value.ty = "Float" ->
            (CASE value.kind = "F16" -> PanicElem
               [] value.kind = "BF16" -> PanicElem
               [] value.kind = "TF32" -> PanicElem
               [] value.kind = "Flex32" -> "F32"
               [] value.kind = "F32" -> "F32"
               [] value.kind = "F64" -> PanicElem)
      [] value.ty = "Int" ->
            (CASE value.kind = "I32" -> "I32"
               [] OTHER -> PanicElem)
      [] value.ty = "UInt" ->
            (CASE value.kind = "U32" -> "U32"
               [] OTHER -> PanicElem)
      [] value.ty = "Bool" -> "Bool"
      [] value.ty = "AtomicInt" ->
            (CASE value.kind = "I32" -> "AtomicI32"
               [] OTHER -> PanicElem)
      [] value.ty = "AtomicUInt" ->
            (CASE value.kind = "U32" -> "AtomicU32"
               [] OTHER -> PanicElem)

PanicItem == [vec |-> "PANIC", elem |-> PanicElem]

\* vectorization.map(|it| it.get()).unwrap_or(1)
Factor(item) == IF item.vectorization = 0 THEN 1 ELSE item.vectorization

ItemWith_no_vec3(elem, n) ==
    IF elem = PanicElem THEN PanicItem
    ELSE CASE n = 1 -> [vec |-> "Scalar", elem |-> elem]
           [] n = 2 -> [vec |-> "Vec2", elem |-> elem]
           [] n = 4 -> [vec |-> "Vec4", elem |-> elem]
           [] OTHER -> PanicItem

\* the match of compile_item on the vectorization factor
ItemWith(elem, n) ==
    IF elem = PanicElem THEN PanicItem
    ELSE CASE n = 1 -> [vec |-> "Scalar", elem |-> elem]
           [] n = 2 -> [vec |-> "Vec2", elem |-> elem]
           [] n = 3 -> [vec |-> "Vec3", elem |-> elem]
           [] n = 4 -> [vec |-> "Vec4", elem |-> elem]
           [] OTHER -> PanicItem

compile_item(item) == ItemWith(compile_elem(item.elem), Factor(item))

\* wgsl::Elem::size: every supported scalar is four bytes wide but bool.
BoolSize == 1
WordSize == 4

ElemSizeOf(e) == IF e = "Bool" THEN BoolSize ELSE WordSize

\* Compiler::elem_size: compile_elem(elem).size(); the panic of compile_elem
\* propagates.
SizeOf(e) ==
    IF e = PanicElem THEN [ok |-> FALSE, size |-> 0]
    ELSE [ok |-> TRUE, size |-> ElemSizeOf(e)]

elem_size(elem) == SizeOf(compile_elem(elem))

----------------------------------------------------------------------------
(* cubecl_core::Metadata: the layout of the metadata table.  For num_meta  *)
(* bindings of which num_extended_meta carry extended metadata: the        *)
(* lengths, the buffer lengths, the ranks, the shape offsets and the       *)
(* stride offsets, in that order.                                          *)

MetadataNew(num_meta, num_ext) ==
    [num_meta |-> num_meta, num_extended_meta |-> num_ext]

len_index(m, i) == i
buffer_len_index(m, i) == m.num_meta + i
rank_index(m, e) == 2 * m.num_meta + e
shape_offset_index(m, e) == 2 * m.num_meta + m.num_extended_meta + e
stride_offset_index(m, e) == 2 * m.num_meta + 2 * m.num_extended_meta + e

----------------------------------------------------------------------------
(* The compiler instance. *)

\* #[derive(Default)] struct WgslCompiler
DefaultCompiler ==
    [ num_inputs |-> 0,
      num_outputs |-> 0,
      metadata |-> MetadataNew(0, 0),
      ext_meta_pos |-> <<>>,
      local_invocation_index |-> FALSE,
      local_invocation_id |-> FALSE,
      global_invocation_id |-> FALSE,
      workgroup_id |-> FALSE,
      subgroup_size |-> FALSE,
      id |-> FALSE,
      num_workgroups |-> FALSE,
      workgroup_id_no_axis |-> FALSE,
      workgroup_size_no_axis |-> FALSE,
      num_workgroup_no_axis |-> FALSE,
      shared_memories |-> <<>>,
      const_arrays |-> <<>>,
      local_arrays |-> <<>> ]

Flags ==
    { "local_invocation_index", "local_invocation_id", "global_invocation_id",
      "workgroup_id", "subgroup_size", "id", "num_workgroups",
      "workgroup_id_no_axis", "workgroup_size_no_axis", "num_workgroup_no_axis" }

\* cube::Builtin
Builtins ==
    { "AbsolutePos", "UnitPos", "UnitPosX", "UnitPosY", "UnitPosZ",
      "CubePosX", "CubePosY", "CubePosZ",
      "AbsolutePosX", "AbsolutePosY", "AbsolutePosZ",
      "CubeDimX", "CubeDimY", "CubeDimZ",
      "CubeCountX", "CubeCountY", "CubeCountZ",
      "CubePos", "CubeDim", "CubeCount", "SubcubeDim" }

NoFlag == "none"

\* The built-in arms of compile_variable: the wgsl::Variable each yields.
BuiltinVariable(builtin) ==
    CASE builtin = "AbsolutePos" -> "Id"
      [] builtin = "UnitPos" -> "LocalInvocationIndex"
      [] builtin = "UnitPosX" -> "LocalInvocationIdX"
      [] builtin = "UnitPosY" -> "LocalInvocationIdY"
      [] builtin = "UnitPosZ" -> "LocalInvocationIdZ"
      [] builtin = "CubePosX" -> "WorkgroupIdX"
      [] builtin = "CubePosY" -> "WorkgroupIdY"
      [] builtin = "CubePosZ" -> "WorkgroupIdZ"
      [] builtin = "AbsolutePosX" -> "GlobalInvocationIdX"
      [] builtin = "AbsolutePosY" -> "GlobalInvocationIdY"
      [] builtin = "AbsolutePosZ" -> "GlobalInvocationIdZ"
      [] builtin = "CubeDimX" -> "WorkgroupSizeX"
      [] builtin = "CubeDimY" -> "WorkgroupSizeY"
      [] builtin = "CubeDimZ" -> "WorkgroupSizeZ"
      [] builtin = "CubeCountX" -> "NumWorkgroupsX"
      [] builtin = "CubeCountY" -> "NumWorkgroupsY"
      [] builtin = "CubeCountZ" -> "NumWorkgroupsZ"
      [] builtin = "CubePos" -> "WorkgroupId"
      [] builtin = "CubeDim" -> "WorkgroupSize"
      [] builtin = "CubeCount" -> "NumWorkgroups"
      [] builtin = "SubcubeDim" -> "SubgroupSize"

BuiltinFlag_cube_dim_sets_flag(builtin) ==
    CASE builtin = "AbsolutePos" -> "id"
      [] builtin = "UnitPos" -> "local_invocation_index"
      [] builtin \in {"UnitPosX", "UnitPosY", "UnitPosZ"} -> "local_invocation_id"
      [] builtin \in {"CubePosX", "CubePosY", "CubePosZ"} -> "workgroup_id"
      [] builtin \in {"AbsolutePosX", "AbsolutePosY", "AbsolutePosZ"} ->
            "global_invocation_id"
      [] builtin \in {"CubeDimX", "CubeDimY", "CubeDimZ"} -> "workgroup_size_no_axis"
      [] builtin \in {"CubeCountX", "CubeCountY", "CubeCountZ"} -> "num_workgroups"
      [] builtin = "CubePos" -> "workgroup_id_no_axis"
      [] builtin = "CubeDim" -> "workgroup_size_no_axis"
      [] builtin = "CubeCount" -> "num_workgroup_no_axis"
      [] builtin = "SubcubeDim" -> "subgroup_size"

\* The built-in arms of compile_variable: the flag each sets to true.
BuiltinFlag(builtin) ==
    CASE builtin = "AbsolutePos" -> "id"
      [] builtin = "UnitPos" -> "local_invocation_index"
      [] builtin \in {"UnitPosX", "UnitPosY", "UnitPosZ"} -> "local_invocation_id"
      [] builtin \in {"CubePosX", "CubePosY", "CubePosZ"} -> "workgroup_id"
      [] builtin \in {"AbsolutePosX", "AbsolutePosY", "AbsolutePosZ"} ->
            "global_invocation_id"
      [] builtin \in {"CubeDimX", "CubeDimY", "CubeDimZ"} -> NoFlag
      [] builtin \in {"CubeCountX", "CubeCountY", "CubeCountZ"} -> "num_workgroups"
      [] builtin = "CubePos" -> "workgroup_id_no_axis"
      [] builtin = "CubeDim" -> "workgroup_size_no_axis"
      [] builtin = "CubeCount" -> "num_workgroup_no_axis"
      [] builtin = "SubcubeDim" -> "subgroup_size"

----------------------------------------------------------------------------
(* Variable lowerer. *)

NoVar == [tag |-> "None"]

Panic(s) == [ok |-> FALSE, self |-> s, var |-> NoVar]
Lowered(s, v) == [ok |-> TRUE, self |-> s, var |-> v]

\* self.shared_memories.iter().any(|s| s.index == id), also for local_arrays
AnyIndex(list, id) == \E k \in 1..Len(list) : list[k].index = id

DeclareShared_always_push(s, id, item, length) ==
    [s EXCEPT !.shared_memories =
        Append(@, [index |-> id, item |-> item, size |-> length])]

\* the SharedMemory arm: push SharedMemory::new(id, item, length) on first sight
DeclareShared(s, id, item, length) ==
    IF ~AnyIndex(s.shared_memories, id)
    THEN [s EXCEPT !.shared_memories =
            Append(@, [index |-> id, item |-> item, size |-> length])]
    ELSE s

\* the LocalArray arm: push LocalArray::new(id, item, depth, length) on first sight
DeclareLocalArray(s, id, item, depth, length) ==
    IF ~AnyIndex(s.local_arrays, id)
    THEN [s EXCEPT !.local_arrays =
            Append(@, [index |-> id, item |-> item, depth |-> depth,
                       size |-> length])]
    ELSE s

SetFlag_toggles(s, flag) == IF flag = NoFlag THEN s ELSE [s EXCEPT ![flag] = ~@]

SetFlag(s, flag) == IF flag = NoFlag THEN s ELSE [s EXCEPT ![flag] = TRUE]

\* the arms of compile_variable that lower the variable's item
LowerWithItem(s, value, item) ==
    IF item = PanicItem THEN Panic(s)
    ELSE CASE value.kind \in {"GlobalInputArray", "GlobalOutputArray"} ->
                Lowered(s, [tag |-> value.kind, id |-> value.id, item |-> item])
           [] value.kind \in {"Local", "Versioned"} ->
                Lowered(s, [tag |-> "Local", id |-> value.id, item |-> item,
                            depth |-> value.depth])
           [] value.kind = "LocalBinding" ->
                Lowered(s, [tag |-> "LocalBinding", id |-> value.id,
                            item |-> item])
           [] value.kind = "Slice" ->
                Lowered(s, [tag |-> "Slice", id |-> value.id, item |-> item,
                            depth |-> value.depth])
           [] value.kind = "SharedMemory" ->
                Lowered(DeclareShared(s, value.id, item, value.length),
                        [tag |-> "SharedMemory", id |-> value.id, item |-> item,
                         length |-> value.length])
           [] value.kind = "ConstantArray" ->
                Lowered(s, [tag |-> "ConstantArray", id |-> value.id,
                            item |-> item, length |-> value.length])
           [] value.kind = "LocalArray" ->
                Lowered(DeclareLocalArray(s, value.id, item, value.depth,
                                          value.length),
                        [tag |-> "LocalArray", id |-> value.id, item |-> item,
                         depth |-> value.depth, length |-> value.length])

\* the arms of compile_variable that lower an element only
LowerWithElem(s, value, elem) ==
    IF elem = PanicElem THEN Panic(s)
    ELSE CASE value.kind = "GlobalScalar" ->
                Lowered(s, [tag |-> "GlobalScalar", id |-> value.id,
                            elem |-> elem, cube_elem |-> value.item.elem])
           [] value.kind = "ConstantScalar" ->
                Lowered(s, [tag |-> "ConstantScalar", value |-> value.value,
                            elem |-> elem])

compile_variable_lowers_matrix(s, value) ==
    CASE value.kind = "GlobalScalar" ->
            LowerWithElem(s, value, compile_elem(value.item.elem))
      [] value.kind = "ConstantScalar" ->
            LowerWithElem(s, value, compile_elem(value.value.elem))
      [] value.kind = "Builtin" ->
            Lowered(SetFlag(s, BuiltinFlag(value.builtin)),
                    [tag |-> BuiltinVariable(value.builtin)])
      [] value.kind = "Matrix" -> Lowered(s, [tag |-> "Matrix", id |-> value.id])
      [] OTHER -> LowerWithItem(s, value, compile_item(value.item))

compile_variable(s, value) ==
    CASE value.kind = "GlobalScalar" ->
            LowerWithElem(s, value, compile_elem(value.item.elem))
      [] value.kind = "ConstantScalar" ->
            LowerWithElem(s, value, compile_elem(value.value.elem))
      [] value.kind = "Builtin" ->
            Lowered(SetFlag(s, BuiltinFlag(value.builtin)),
                    [tag |-> BuiltinVariable(value.builtin)])
      [] value.kind = "Matrix" -> Panic(s)
      [] OTHER -> LowerWithItem(s, value, compile_item(value.item))

NoVars(s) == [ok |-> FALSE, self |-> s, vars |-> <<>>]

Cons(var, rest) ==
    [ok |-> rest.ok, self |-> rest.self, vars |-> <<var>> \o rest.vars]

\* compile_variable over the operands of one operation, in evaluation order
RECURSIVE compile_variables(_, _)
RECURSIVE compile_rest(_, _)
compile_rest(head, values) ==
    IF ~head.ok THEN NoVars(head.self)
    ELSE Cons(head.var, compile_variables(head.self, values))

compile_variables(s, values) ==
    IF values = <<>> THEN [ok |-> TRUE, self |-> s, vars |-> <<>>]
    ELSE compile_rest(compile_variable(s, Head(values)), Tail(values))

----------------------------------------------------------------------------
(* wgsl::Variable, wgsl::Item: what the extension rules read. *)

BuiltinTags == {BuiltinVariable(b) : b \in Builtins}

ScalarOf(elem) == [vec |-> "Scalar", elem |-> elem]

\* wgsl::Variable::item
VariableItem(v) ==
    CASE v.tag \in {"GlobalScalar", "ConstantScalar"} -> ScalarOf(v.elem)
      [] v.tag \in BuiltinTags -> ScalarOf("U32")
      [] OTHER -> v.item

\* wgsl::Variable::is_always_scalar
is_always_scalar(v) ==
    v.tag \in {"GlobalScalar", "ConstantScalar"} \cup BuiltinTags

\* wgsl::Item::vectorization_factor
vectorization_factor(item) ==
    CASE item.vec = "Scalar" -> 1
      [] item.vec = "Vec2" -> 2
      [] item.vec = "Vec3" -> 3
      [] item.vec = "Vec4" -> 4

----------------------------------------------------------------------------
(* Operation lowerer. *)

NoOut == [kind |-> "None"]

\* impl From<u32> for cube::Variable: a constant scalar of type u32
ConstantU32(n) ==
    [ kind |-> "ConstantScalar",
      value |-> [elem |-> ElemU32, v |-> n],
      item |-> ItemOf(ElemU32, 0) ]

\* What an operation lowers to: the operands it hands to compile_variable,
\* in the order the instruction's struct literal evaluates them, and the
\* instruction built from their lowerings.  ok is false where the code panics
\* before lowering any operand.
Lowering(form, values) == [ok |-> TRUE, form |-> form, values |-> values]
PanicLowering == [ok |-> FALSE, form |-> "Panic", values |-> <<>>]

BinaryOperators ==
    { "Max", "Min", "Add", "Index", "UncheckedIndex", "Modulo", "Sub", "Mul",
      "Div", "Powf", "Equal", "Lower", "Greater", "LowerEqual", "GreaterEqual",
      "NotEqual", "IndexAssign", "UncheckedIndexAssign", "And", "Or",
      "BitwiseOr", "BitwiseAnd", "BitwiseXor", "ShiftLeft", "ShiftRight",
      "Remainder", "Dot" }

UnaryOperators ==
    { "Abs", "Exp", "Log", "Log1p", "Cos", "Sin", "Tanh", "Sqrt", "Round",
      "Floor", "Ceil", "Erf", "Recip", "Cast", "Not", "Bitcast", "Neg",
      "Magnitude", "Normalize" }

\* the wgsl::Instruction variant each cube::Operator arm builds
InstructionTag_keeps_unchecked(name) ==
    CASE name = "Cast" -> "Assign"
      [] name = "Neg" -> "Negate"
      [] OTHER -> name

InstructionTag(name) ==
    CASE name = "UncheckedIndex" -> "Index"
      [] name = "UncheckedIndexAssign" -> "IndexAssign"
      [] name = "Cast" -> "Assign"
      [] name = "Neg" -> "Negate"
      [] OTHER -> name

compile_instruction(value, out) ==
    IF out = NoOut THEN PanicLowering
    ELSE CASE value.name \in BinaryOperators ->
                Lowering(InstructionTag(value.name), <<value.lhs, value.rhs, out>>)
           [] value.name \in UnaryOperators ->
                Lowering(InstructionTag(value.name), <<value.input, out>>)

\* WgslCompiler::ext_meta_pos; NoPosition stands for its panics (the variable
\* is no global array, or the index is out of the table's bounds)
NoPosition == -1

TableAt(table, pos) ==
    IF pos + 1 \in DOMAIN table THEN table[pos + 1] ELSE NoPosition

ext_meta_pos_ignores_num_inputs(s, var) ==
    CASE var.kind = "GlobalInputArray" -> TableAt(s.ext_meta_pos, var.id)
      [] var.kind = "GlobalOutputArray" -> TableAt(s.ext_meta_pos, var.id)
      [] OTHER -> NoPosition

ext_meta_pos_first_entry_otherwise(s, var) ==
    CASE var.kind = "GlobalInputArray" -> TableAt(s.ext_meta_pos, var.id)
      [] var.kind = "GlobalOutputArray" ->
            TableAt(s.ext_meta_pos, s.num_inputs + var.id)
      [] OTHER -> TableAt(s.ext_meta_pos, 0)

ext_meta_pos(s, var) ==
    CASE var.kind = "GlobalInputArray" -> TableAt(s.ext_meta_pos, var.id)
      [] var.kind = "GlobalOutputArray" ->
            TableAt(s.ext_meta_pos, s.num_inputs + var.id)
      [] OTHER -> NoPosition

\* Metadata { out, info_offset }
MetadataAt(offset, out) == Lowering("Metadata", <<out, ConstantU32(offset)>>)

\* ExtendedMeta { info_offset, dim, out }
ExtendedMetaAt(offset, dim, out) ==
    Lowering("ExtendedMeta", <<ConstantU32(offset), dim, out>>)

RankAt(s, position, out) ==
    IF position = NoPosition THEN PanicLowering
    ELSE MetadataAt(rank_index(s.metadata, position), out)

StrideAt(s, position, dim, out) ==
    IF position = NoPosition THEN PanicLowering
    ELSE ExtendedMetaAt(stride_offset_index(s.metadata, position), dim, out)

ShapeAt(s, position, dim, out) ==
    IF position = NoPosition THEN PanicLowering
    ELSE ExtendedMetaAt(shape_offset_index(s.metadata, position), dim, out)

compile_metadata(s, metadata, out) ==
    IF out = NoOut THEN PanicLowering
    ELSE CASE metadata.name = "Rank" ->
                RankAt(s, ext_meta_pos(s, metadata.var), out)
           [] metadata.name = "Stride" ->
                StrideAt(s, ext_meta_pos(s, metadata.var), metadata.dim, out)
           [] metadata.name = "Shape" ->
                ShapeAt(s, ext_meta_pos(s, metadata.var), metadata.dim, out)
           [] metadata.name = "Length" ->
                (CASE metadata.var.kind = "GlobalInputArray" ->
                        MetadataAt(len_index(s.metadata, metadata.var.id), out)
                   [] metadata.var.kind = "GlobalOutputArray" ->
                        MetadataAt(len_index(s.metadata,
                                             s.num_inputs + metadata.var.id), out)
                   [] OTHER -> Lowering("Length", <<metadata.var, out>>))
           [] metadata.name = "BufferLength" ->
                (CASE metadata.var.kind = "GlobalInputArray" ->
                        MetadataAt(buffer_len_index(s.metadata, metadata.var.id),
                                   out)
                   [] metadata.var.kind = "GlobalOutputArray" ->
                        MetadataAt(buffer_len_index(s.metadata,
                                        s.num_inputs + metadata.var.id), out)
                   [] OTHER -> Lowering("Length", <<metadata.var, out>>))

BinaryAtomics == {"Add", "Sub", "Max", "Min", "And", "Or", "Xor", "Swap"}

\* the wgsl::Instruction variant each cube::AtomicOp arm builds
AtomicTag(name) ==
    CASE name = "Add" -> "AtomicAdd"
      [] name = "Sub" -> "AtomicSub"
      [] name = "Max" -> "AtomicMax"
      [] name = "Min" -> "AtomicMin"
      [] name = "And" -> "AtomicAnd"
      [] name = "Or" -> "AtomicOr"
      [] name = "Xor" -> "AtomicXor"
      [] name = "Swap" -> "AtomicSwap"
      [] name = "Load" -> "AtomicLoad"
      [] name = "Store" -> "AtomicStore"
      [] name = "CompareAndSwap" -> "AtomicCompareExchangeWeak"

compile_atomic(atomic, out) ==
    IF out = NoOut THEN PanicLowering
    ELSE CASE atomic.name \in BinaryAtomics ->
                Lowering(AtomicTag(atomic.name), <<atomic.lhs, atomic.rhs, out>>)
           [] atomic.name \in {"Load", "Store"} ->
                Lowering(AtomicTag(atomic.name), <<atomic.input, out>>)
           [] atomic.name = "CompareAndSwap" ->
                Lowering(AtomicTag(atomic.name),
                         <<atomic.input, atomic.cmp, atomic.val, out>>)

UnarySubgroups == {"All", "Any", "Sum", "Prod", "Min", "Max"}

\* the Subgroup variant each cube::Subcube arm builds
SubgroupTag(name) ==
    CASE name = "Elect" -> "SubgroupElect"
      [] name = "All" -> "SubgroupAll"
      [] name = "Any" -> "SubgroupAny"
      [] name = "Broadcast" -> "SubgroupBroadcast"
      [] name = "Sum" -> "SubgroupSum"
      [] name = "Prod" -> "SubgroupProd"
      [] name = "Min" -> "SubgroupMin"
      [] name = "Max" -> "SubgroupMax"

compile_subgroup(subgroup, out) ==
    IF out = NoOut THEN PanicLowering
    ELSE CASE subgroup.name = "Elect" -> Lowering(SubgroupTag(subgroup.name), <<out>>)
           [] subgroup.name \in UnarySubgroups ->
                Lowering(SubgroupTag(subgroup.name), <<subgroup.input, out>>)
           [] subgroup.name = "Broadcast" ->
                Lowering(SubgroupTag(subgroup.name),
                         <<subgroup.lhs, subgroup.rhs, out>>)

compile_synchronization(synchronization) ==
    IF synchronization = "SyncUnits" THEN Lowering("WorkgroupBarrier", <<>>)
    ELSE Lowering("StorageBarrier", <<>>)

compile_operation_every_out_unwrapped(s, operation, out) ==
    IF out = NoOut THEN PanicLowering
    ELSE CASE operation.op = "Copy" ->
                Lowering("Assign", <<operation.variable, out>>)
           [] operation.op = "Operator" ->
                compile_instruction(operation.operator, out)
           [] operation.op = "Atomic" -> compile_atomic(operation.atomic, out)
           [] operation.op = "Metadata" ->
                compile_metadata(s, operation.metadata, out)
           [] operation.op = "Synchronization" ->
                compile_synchronization(operation.synchronization)
           [] operation.op = "Branch" -> Lowering(operation.branch.name, <<>>)
           [] operation.op = "Subcube" ->
                compile_subgroup(operation.subcube, out)
           [] operation.op = "CoopMma" -> PanicLowering

\* compile_operation, but for the branches that own scopes (lowered scope by
\* scope below)
compile_operation(s, operation, out) ==
    CASE operation.op = "Copy" ->
            IF out = NoOut THEN PanicLowering
            ELSE Lowering("Assign", <<operation.variable, out>>)
      [] operation.op = "Operator" -> compile_instruction(operation.operator, out)
      [] operation.op = "Atomic" -> compile_atomic(operation.atomic, out)
      [] operation.op = "Metadata" -> compile_metadata(s, operation.metadata, out)
      [] operation.op = "Synchronization" ->
            compile_synchronization(operation.synchronization)
      [] operation.op = "Branch" ->
            \* Branch::Return and Branch::Break of compile_branch
            Lowering(operation.branch.name, <<>>)
      [] operation.op = "Subcube" -> compile_subgroup(operation.subcube, out)
      [] operation.op = "CoopMma" -> PanicLowering

\* the wgsl::Instruction of the given variant over the lowered operands w
Instruction(form, w) ==
    CASE form \in {InstructionTag(n) : n \in BinaryOperators} ->
            [tag |-> form, lhs |-> w[1], rhs |-> w[2], out |-> w[3]]
      [] form \in {InstructionTag(n) : n \in UnaryOperators} \ {"Assign"} ->
            [tag |-> form, input |-> w[1], out |-> w[2]]
      [] form = "Assign" -> [tag |-> form, input |-> w[1], out |-> w[2]]
      [] form = "Metadata" -> [tag |-> form, out |-> w[1], info_offset |-> w[2]]
      [] form = "ExtendedMeta" ->
            [tag |-> form, info_offset |-> w[1], dim |-> w[2], out |-> w[3]]
      [] form = "Length" -> [tag |-> form, var |-> w[1], out |-> w[2]]
      [] form \in {AtomicTag(n) : n \in BinaryAtomics} ->
            [tag |-> form, lhs |-> w[1], rhs |-> w[2], out |-> w[3]]
      [] form \in {"AtomicLoad", "AtomicStore"} ->
            [tag |-> form, input |-> w[1], out |-> w[2]]
      [] form = "AtomicCompareExchangeWeak" ->
            [tag |-> form, lhs |-> w[1], cmp |-> w[2], value |-> w[3],
             out |-> w[4]]
      [] form = "SubgroupElect" ->
            [tag |-> "Subgroup", op |-> [tag |-> "Elect", out |-> w[1]]]
      [] form \in {SubgroupTag(n) : n \in UnarySubgroups} ->
            [tag |-> "Subgroup",
             op |-> [tag |-> form, input |-> w[1], out |-> w[2]]]
      [] form = "SubgroupBroadcast" ->
            [tag |-> "Subgroup",
             op |-> [tag |-> "Broadcast", lhs |-> w[1], rhs |-> w[2],
                     out |-> w[3]]]
      [] OTHER -> [tag |-> form]

----------------------------------------------------------------------------
(* Control-flow lowerer: compile_scope and compile_branch.  The recursion  *)
(* of compile_scope is the stack of frames; a frame holds the instructions *)
(* lowered so far for its scope and the branch instruction that its parent *)
(* is building around it.                                                  *)

NoArrays(s) == [ok |-> FALSE, self |-> s, arrays |-> <<>>]

ConsArray(array, rest) ==
    [ok |-> rest.ok, self |-> rest.self, arrays |-> <<array>> \o rest.arrays]

\* the drain of value.const_arrays: one ConstantArray per (var, values)
RECURSIVE drain_const_arrays(_, _)
RECURSIVE drain_rest(_, _, _, _)
drain_rest(item, vals, entry, const_arrays) ==
    IF item = PanicItem \/ ~vals.ok THEN NoArrays(vals.self)
    ELSE ConsArray([index |-> entry.var.id, item |-> item,
                    size |-> Len(entry.values), values |-> vals.vars],
                   drain_const_arrays(vals.self, const_arrays))

drain_const_arrays(s, const_arrays) ==
    IF const_arrays = <<>> THEN [ok |-> TRUE, self |-> s, arrays |-> <<>>]
    ELSE drain_rest(compile_item(Head(const_arrays).var.item),
                    compile_variables(s, Head(const_arrays).values),
                    Head(const_arrays), Tail(const_arrays))

NoDeclarations(s) == [ok |-> FALSE, self |-> s, instructions |-> <<>>]

ConsDeclaration(var, rest) ==
    [ok |-> rest.ok, self |-> rest.self,
     instructions |-> << [tag |-> "DeclareVariable", var |-> var] >>
                        \o rest.instructions]

\* the declarations of processing.variables, slices skipped
RECURSIVE declare_variables(_, _)
RECURSIVE declare_rest(_, _)
declare_rest(head, variables) ==
    IF ~head.ok THEN NoDeclarations(head.self)
    ELSE ConsDeclaration(head.var, declare_variables(head.self, variables))

declare_variables_with_slices(s, variables) ==
    IF variables = <<>> THEN [ok |-> TRUE, self |-> s, instructions |-> <<>>]
    ELSE declare_rest(compile_variable(s, Head(variables)), Tail(variables))

declare_variables(s, variables) ==
    IF variables = <<>> THEN [ok |-> TRUE, self |-> s, instructions |-> <<>>]
    ELSE IF Head(variables).kind = "Slice"
         THEN declare_variables(s, Tail(variables))
         ELSE declare_rest(compile_variable(s, Head(variables)), Tail(variables))

declare_after_drain_prepends(drained, variables) ==
    IF ~drained.ok THEN NoDeclarations(drained.self)
    ELSE declare_variables(
            [drained.self EXCEPT !.const_arrays = drained.arrays \o @], variables)

\* self.const_arrays.extend(const_arrays), then the declarations
declare_after_drain(drained, variables) ==
    IF ~drained.ok THEN NoDeclarations(drained.self)
    ELSE declare_variables(
            [drained.self EXCEPT !.const_arrays = @ \o drained.arrays], variables)

\* compile_scope up to the lowering of the scope's operations
enter_scope(s, scope) ==
    declare_after_drain(drain_const_arrays(s, scope.const_arrays), scope.variables)

EmptyScope == [const_arrays |-> <<>>, variables |-> <<>>]

Frame(instructions, branch) == [instructions |-> instructions, branch |-> branch]

Top == stack[Len(stack)]

Push(frame) == Append(stack, frame)

\* instructions.push(...) in the innermost scope
PushInstructions(stk, instructions) ==
    [stk EXCEPT ![Len(stk)].instructions = @ \o instructions]

\* the scope returns: the branch instruction goes to the parent's list
PopWith(instruction) ==
    PushInstructions(SubSeq(stack, 1, Len(stack) - 1), <<instruction>>)

\* a scope is being lowered (and not a Switch between two of its cases)
InScope == pc = "body" /\ Len(stack) > 0 /\ Top.branch.phase # "cases"

----------------------------------------------------------------------------
(* Extension collector. *)

Extension(name, item) == [ext |-> name, item |-> item]

register_extension_always_push(extensions, extension) ==
    Append(extensions, extension)

\* the closure register_extension: push unless already contained
register_extension(extensions, extension) ==
    IF \E k \in 1..Len(extensions) : extensions[k] = extension
    THEN extensions
    ELSE Append(extensions, extension)

RECURSIVE register_all(_, _)
register_all(extensions, new) ==
    IF new = <<>> THEN extensions
    ELSE register_all(register_extension(extensions, Head(new)), Tail(new))

powf_extensions_and(extensions, instruction) ==
    LET e1 == register_extension(extensions,
                    Extension("PowfPrimitive", VariableItem(instruction.out)))
    IN  IF is_always_scalar(instruction.rhs)
           /\ vectorization_factor(VariableItem(instruction.rhs)) = 1
        THEN register_extension(e1, Extension("PowfScalar",
                                              VariableItem(instruction.out)))
        ELSE register_extension(e1, Extension("Powf",
                                              VariableItem(instruction.out)))

\* the Powf arm of register_extensions
powf_extensions(extensions, instruction) ==
    LET e1 == register_extension(extensions,
                    Extension("PowfPrimitive", VariableItem(instruction.out)))
    IN  IF is_always_scalar(instruction.rhs)
           \/ vectorization_factor(VariableItem(instruction.rhs)) = 1
        THEN register_extension(e1, Extension("PowfScalar",
                                              VariableItem(instruction.out)))
        ELSE register_extension(e1, Extension("Powf",
                                              VariableItem(instruction.out)))

RECURSIVE register_extensions_from(_, _, _)
register_extensions_from(extensions, instructions, os) ==
    IF instructions = <<>> THEN extensions
    ELSE LET instruction == Head(instructions)
             nested(list) == register_extensions_from(<<>>, list, os)
             next ==
                CASE instruction.tag = "Powf" ->
                        powf_extensions(extensions, instruction)
                  [] instruction.tag = "Erf" ->
                        register_extension(extensions,
                            Extension("Erf", VariableItem(instruction.input)))
                  [] instruction.tag = "Tanh" /\ os = "macos" ->
                        register_extension(extensions,
                            Extension("SafeTanh", VariableItem(instruction.input)))
                  [] instruction.tag = "If" ->
                        register_all(extensions, nested(instruction.instructions))
                  [] instruction.tag = "IfElse" ->
                        register_all(
                            register_all(extensions,
                                         nested(instruction.instructions_if)),
                            nested(instruction.instructions_else))
                  [] instruction.tag = "Loop" ->
                        register_all(extensions, nested(instruction.instructions))
                  [] instruction.tag = "RangeLoop" ->
                        register_all(extensions, nested(instruction.instructions))
                  [] OTHER -> extensions
         IN  register_extensions_from(next, Tail(instructions), os)

register_extensions_tanh_everywhere(instructions, os) ==
    register_extensions_from(<<>>, instructions, "macos")

register_extensions(instructions, os) ==
    register_extensions_from(<<>>, instructions, os)

----------------------------------------------------------------------------
(* Shader assembler. *)

NoShader == [none |-> TRUE]

\* the loop over inputs.chain(outputs): push num_ext, then count the binding
RECURSIVE ExtMetaPositions(_, _)
ExtMetaPositions(bindings, num_ext) ==
    IF bindings = <<>> THEN [ext_meta_pos |-> <<>>, num_ext |-> num_ext]
    ELSE LET rest == ExtMetaPositions(Tail(bindings),
                        IF Head(bindings).has_extended_meta
                        THEN num_ext + 1 ELSE num_ext)
         IN  [ext_meta_pos |-> <<num_ext>> \o rest.ext_meta_pos,
              num_ext |-> rest.num_ext]

RECURSIVE ExtMetaPositionsCountFirst(_, _)
ExtMetaPositionsCountFirst(bindings, num_ext) ==
    IF bindings = <<>> THEN [ext_meta_pos |-> <<>>, num_ext |-> num_ext]
    ELSE LET n == IF Head(bindings).has_extended_meta
                  THEN num_ext + 1 ELSE num_ext
             rest == ExtMetaPositionsCountFirst(Tail(bindings), n)
         IN  [ext_meta_pos |-> <<n>> \o rest.ext_meta_pos,
              num_ext |-> rest.num_ext]

setup_metadata_count_first(s, value) ==
    LET num_meta == Len(value.inputs) + Len(value.outputs)
        table == ExtMetaPositionsCountFirst(value.inputs \o value.outputs, 0)
    IN  [s EXCEPT !.num_inputs = Len(value.inputs),
                  !.num_outputs = Len(value.outputs),
                  !.ext_meta_pos = table.ext_meta_pos,
                  !.metadata = MetadataNew(num_meta, table.num_ext)]

setup_metadata_never_counts(s, value) ==
    LET num_meta == Len(value.inputs) + Len(value.outputs)
        table == ExtMetaPositions(value.inputs \o value.outputs, 0)
    IN  [s EXCEPT !.num_inputs = Len(value.inputs),
                  !.num_outputs = Len(value.outputs),
                  !.ext_meta_pos = [k \in 1..num_meta |-> 0],
                  !.metadata = MetadataNew(num_meta, table.num_ext)]

\* compile_shader up to the lowering of the body
setup_metadata(s, value) ==
    LET num_meta == Len(value.inputs) + Len(value.outputs)
        table == ExtMetaPositions(value.inputs \o value.outputs, 0)
    IN  [s EXCEPT !.num_inputs = Len(value.inputs),
                  !.num_outputs = Len(value.outputs),
                  !.ext_meta_pos = table.ext_meta_pos,
                  !.metadata = MetadataNew(num_meta, table.num_ext)]

compile_location(value) == IF value = "Storage" THEN "Storage" ELSE "Workgroup"

compile_visibility(value) == IF value = "Read" THEN "Read" ELSE "ReadWrite"

compile_binding(value) ==
    [ visibility |-> compile_visibility(value.visibility),
      location |-> compile_location(value.location),
      item |-> compile_item(value.item),
      size |-> value.size ]

compile_bindings(bindings) == [k \in 1..Len(bindings) |-> compile_binding(bindings[k])]

BindingsOk(bindings) ==
    \A k \in 1..Len(bindings) : compile_item(bindings[k].item) # PanicItem

assemble_shader_raw_flags(s, value, instructions, os) ==
    [ inputs |-> compile_bindings(value.inputs),
      outputs |-> compile_bindings(value.outputs),
      named |-> compile_bindings(value.named),
      shared_memories |-> s.shared_memories,
      constant_arrays |-> s.const_arrays,
      local_arrays |-> s.local_arrays,
      workgroup_size |-> value.cube_dim,
      global_invocation_id |-> s.global_invocation_id,
      local_invocation_index |-> s.local_invocation_index,
      local_invocation_id |-> s.local_invocation_id,
      num_workgroups |-> s.num_workgroups,
      workgroup_id |-> s.workgroup_id,
      subgroup_size |-> s.subgroup_size,
      body |-> [instructions |-> instructions, id |-> s.id],
      extensions |-> register_extensions(instructions, os),
      num_workgroups_no_axis |-> s.num_workgroup_no_axis,
      workgroup_id_no_axis |-> s.workgroup_id_no_axis,
      workgroup_size_no_axis |-> s.workgroup_size_no_axis ]

\* the wgsl::ComputeShader literal that compile_shader returns
assemble_shader(s, value, instructions, os) ==
    [ inputs |-> compile_bindings(value.inputs),
      outputs |-> compile_bindings(value.outputs),
      named |-> compile_bindings(value.named),
      shared_memories |-> s.shared_memories,
      constant_arrays |-> s.const_arrays,
      local_arrays |-> s.local_arrays,
      workgroup_size |-> value.cube_dim,
      global_invocation_id |-> s.global_invocation_id \/ s.id,
      local_invocation_index |-> s.local_invocation_index,
      local_invocation_id |-> s.local_invocation_id,
      num_workgroups |-> s.id \/ s.num_workgroups \/ s.num_workgroup_no_axis
                            \/ s.workgroup_id_no_axis,
      workgroup_id |-> s.workgroup_id \/ s.workgroup_id_no_axis,
      subgroup_size |-> s.subgroup_size,
      body |-> [instructions |-> instructions, id |-> s.id],
      extensions |-> register_extensions(instructions, os),
      num_workgroups_no_axis |-> s.num_workgroup_no_axis,
      workgroup_id_no_axis |-> s.workgroup_id_no_axis,
      workgroup_size_no_axis |-> s.workgroup_size_no_axis ]

----------------------------------------------------------------------------
(* The compile call, step by step. *)

RootBranch == [tag |-> "Root", phase |-> "scope"]

\* value.const_arrays.drain(..) in compile_scope: the scope as it was given
\* and the const_arrays the drain leaves in it
Drained(scope) == [given |-> scope, const_arrays |-> <<>>]

Entered(entered) ==
    IF entered.ok
    THEN /\ self' = entered.self
         /\ stack' = <<Frame(entered.instructions, RootBranch)>>
         /\ pc' = "body"
    ELSE /\ pc' = "panicked"
         /\ UNCHANGED <<self, stack>>

Compile_keeps_compiler ==
    /\ pc = "new"
    /\ Entered(enter_scope(setup_metadata(self, kernel), kernel.body))
    /\ scopes' = Append(scopes, Drained(kernel.body))
    /\ UNCHANGED <<target_os, mode, kernel, calls, pipeline, storage, client,
                   matmul, source, lowered, shader, arg, result>>

\* Compiler::compile: a default compiler, then compile_shader up to the first
\* operation of the body
Compile ==
    /\ pc = "new"
    /\ Entered(enter_scope(setup_metadata(DefaultCompiler, kernel), kernel.body))
    /\ scopes' = Append(scopes, Drained(kernel.body))
    /\ UNCHANGED <<target_os, mode, kernel, calls, pipeline, storage, client,
                   matmul, source, lowered, shader, arg, result>>

\* the operands are lowered in order and the instruction is pushed
Emitted(plan, r) ==
    IF plan.ok /\ r.ok
    THEN /\ self' = r.self
         /\ stack' = PushInstructions(stack, <<Instruction(plan.form, r.vars)>>)
         /\ lowered' = lowered \o plan.values
         /\ pc' = pc
    ELSE /\ pc' = "panicked"
         /\ UNCHANGED <<self, stack, lowered>>

Emit(plan) == Emitted(plan, compile_variables(self, plan.values))

\* compile_operation on one operation of the innermost scope (no scope of
\* its own)
LowerOperation(operation, out) ==
    /\ InScope
    /\ source' = Append(source, [operation |-> operation, out |-> out])
    /\ Emit(compile_operation(self, operation, out))
    /\ UNCHANGED <<target_os, mode, kernel, scopes, calls, pipeline, storage,
                   client, matmul, shader, arg, result>>

\* compile_shader after the body: the extensions, the bindings, the record
Finish ==
    /\ pc = "body"
    /\ Len(stack) = 1
    /\ IF BindingsOk(kernel.inputs \o kernel.outputs \o kernel.named)
       THEN /\ shader' = assemble_shader(self, kernel, Top.instructions, target_os)
            /\ pc' = "done"
       ELSE /\ pc' = "panicked"
            /\ UNCHANGED shader
    /\ UNCHANGED <<target_os, mode, kernel, scopes, calls, pipeline, storage,
                   client, matmul, self, stack, source, lowered, arg, result>>

\* What compile_branch builds around the scopes of a branch: the lowered
\* operands, the instructions of the scopes already closed, the phase.
Branch(tag, operands, inclusive) ==
    [ tag |-> tag, phase |-> "scope", vars |-> operands, inclusive |-> inclusive,
      first |-> <<>>, cases |-> <<>>, case_value |-> NoVar ]

BranchInstruction_exclusive_with_step(branch, instructions) ==
    IF branch.tag = "RangeLoop"
    THEN [tag |-> "RangeLoop", i |-> branch.vars[1], start |-> branch.vars[2],
          end |-> branch.vars[3],
          step |-> IF Len(branch.vars) > 3 THEN branch.vars[4] ELSE branch.vars[2],
          inclusive |-> FALSE, instructions |-> instructions]
    ELSE [tag |-> branch.tag, instructions |-> instructions]

\* the wgsl::Instruction literals of compile_branch
BranchInstruction(branch, instructions) ==
    CASE branch.tag = "If" ->
            [tag |-> "If", cond |-> branch.vars[1], instructions |-> instructions]
      [] branch.tag = "IfElse" ->
            [tag |-> "IfElse", cond |-> branch.vars[1],
             instructions_if |-> branch.first, instructions_else |-> instructions]
      [] branch.tag = "Switch" ->
            [tag |-> "Switch", value |-> branch.vars[1],
             instructions_default |-> branch.first, cases |-> branch.cases]
      [] branch.tag = "RangeLoop" ->
            [tag |-> "RangeLoop", i |-> branch.vars[1], start |-> branch.vars[2],
             end |-> branch.vars[3],
             step |-> IF Len(branch.vars) > 3 THEN branch.vars[4] ELSE NoVar,
             inclusive |-> branch.inclusive, instructions |-> instructions]
      [] branch.tag = "Loop" -> [tag |-> "Loop", instructions |-> instructions]

\* the operands of a branch are lowered, then its first scope is entered
Opened(tag, inclusive, heads, entered, scope) ==
    /\ scopes' = IF heads.ok THEN Append(scopes, Drained(scope)) ELSE scopes
    /\ IF heads.ok /\ entered.ok
       THEN /\ self' = entered.self
            /\ stack' = Push(Frame(entered.instructions,
                                   Branch(tag, heads.vars, inclusive)))
            /\ pc' = pc
       ELSE /\ pc' = "panicked"
            /\ UNCHANGED <<self, stack>>

\* compile_branch on If, IfElse, Switch, RangeLoop, Loop, up to the first
\* operation of the first scope: operands are cond / value / i, start, end
\* and step; the out of the operation is not handed to compile_branch
OpenBranch(tag, operands, inclusive, scope, out) ==
    /\ InScope
    /\ source' = Append(source,
            [operation |-> [op |-> "Branch",
                            branch |-> [name |-> tag, operands |-> operands,
                                        inclusive |-> inclusive]],
             out |-> out])
    /\ lowered' = lowered \o operands
    /\ Opened(tag, inclusive, compile_variables(self, operands),
              enter_scope(compile_variables(self, operands).self, scope), scope)
    /\ UNCHANGED <<target_os, mode, kernel, calls, pipeline, storage, client,
                   matmul, shader, arg, result>>

\* the one scope of an If, a Loop or a RangeLoop, or the else scope of an
\* IfElse, returns: the instruction is pushed in the parent scope
CloseScope ==
    /\ InScope
    /\ \/ Top.branch.tag \in {"If", "Loop", "RangeLoop"}
       \/ Top.branch.tag = "IfElse" /\ Top.branch.phase = "else"
    /\ stack' = PopWith(BranchInstruction(Top.branch, Top.instructions))
    /\ UNCHANGED <<pc, target_os, mode, kernel, scopes, calls, pipeline,
                   storage, client, matmul, self, source, lowered, shader,
                   arg, result>>

\* the next scope of the branch is entered in place of the one that returned
NextScope(phase, case_value, entered) ==
    IF entered.ok
    THEN /\ self' = entered.self
         /\ stack' = [stack EXCEPT
                ![Len(stack)] =
                    Frame(entered.instructions,
                          [Top.branch EXCEPT !.phase = phase,
                                             !.first = Top.instructions,
                                             !.case_value = case_value])]
         /\ pc' = pc
    ELSE /\ pc' = "panicked"
         /\ UNCHANGED <<self, stack>>

\* the if scope of an IfElse returns and its else scope is entered
ElseScope(scope) ==
    /\ InScope
    /\ Top.branch.tag = "IfElse" /\ Top.branch.phase = "scope"
    /\ NextScope("else", NoVar, enter_scope(self, scope))
    /\ scopes' = Append(scopes, Drained(scope))
    /\ UNCHANGED <<target_os, mode, kernel, calls, pipeline, storage, client,
                   matmul, source, lowered, shader, arg, result>>

\* the default scope of a Switch returns: the cases follow
DefaultDone ==
    /\ InScope
    /\ Top.branch.tag = "Switch" /\ Top.branch.phase = "scope"
    /\ stack' = [stack EXCEPT
            ![Len(stack)] = Frame(<<>>, [Top.branch EXCEPT
                                            !.phase = "cases",
                                            !.first = Top.instructions])]
    /\ UNCHANGED <<pc, target_os, mode, kernel, scopes, calls, pipeline,
                   storage, client, matmul, self, source, lowered, shader,
                   arg, result>>

CaseOpened(head, entered, scope) ==
    /\ scopes' = IF head.ok THEN Append(scopes, Drained(scope)) ELSE scopes
    /\ IF head.ok /\ entered.ok
       THEN /\ self' = entered.self
            /\ stack' = [stack EXCEPT
                   ![Len(stack)] =
                       Frame(entered.instructions,
                             [Top.branch EXCEPT !.phase = "case",
                                                !.case_value = head.var])]
            /\ pc' = pc
       ELSE /\ pc' = "panicked"
            /\ UNCHANGED <<self, stack>>

\* the next (val, scope) of op.cases: val is lowered, the scope is entered
SwitchCase(val, scope) ==
    /\ pc = "body" /\ Len(stack) > 0
    /\ Top.branch.phase = "cases"
    /\ lowered' = Append(lowered, val)
    /\ CaseOpened(compile_variable(self, val),
                  enter_scope(compile_variable(self, val).self, scope), scope)
    /\ UNCHANGED <<target_os, mode, kernel, calls, pipeline, storage, client,
                   matmul, source, shader, arg, result>>

CaseDone_deduplicates ==
    /\ InScope
    /\ Top.branch.tag = "Switch" /\ Top.branch.phase = "case"
    /\ stack' = [stack EXCEPT
            ![Len(stack)] =
                Frame(<<>>, [Top.branch EXCEPT
                                !.phase = "cases",
                                !.case_value = NoVar,
                                !.cases =
                                    IF \E k \in 1..Len(@) :
                                            @[k][1] = Top.branch.case_value
                                    THEN @
                                    ELSE Append(@, <<Top.branch.case_value,
                                                     Top.instructions>>)])]
    /\ UNCHANGED <<pc, target_os, mode, kernel, scopes, calls, pipeline,
                   storage, client, matmul, self, source, lowered, shader,
                   arg, result>>

\* the scope of a case returns: (val, instructions) is collected
CaseDone ==
    /\ InScope
    /\ Top.branch.tag = "Switch" /\ Top.branch.phase = "case"
    /\ stack' = [stack EXCEPT
            ![Len(stack)] =
                Frame(<<>>, [Top.branch EXCEPT
                                !.phase = "cases",
                                !.case_value = NoVar,
                                !.cases = Append(@, <<Top.branch.case_value,
                                                     Top.instructions>>)])]
    /\ UNCHANGED <<pc, target_os, mode, kernel, scopes, calls, pipeline,
                   storage, client, matmul, self, source, lowered, shader,
                   arg, result>>

\* op.cases is exhausted: the Switch instruction is pushed in the parent scope
SwitchDone ==
    /\ pc = "body" /\ Len(stack) > 0
    /\ Top.branch.phase = "cases"
    /\ stack' = PopWith(BranchInstruction(Top.branch, <<>>))
    /\ UNCHANGED <<pc, target_os, mode, kernel, scopes, calls, pipeline,
                   storage, client, matmul, self, source, lowered, shader,
                   arg, result>>

----------------------------------------------------------------------------
(* Kernels and operations the compiler is run on. *)

ItemF32 == ItemOf(ElemF32, 0)
ItemU32 == ItemOf(ElemU32, 0)

Binding(item, ext) ==
    [ visibility |-> "ReadWrite", location |-> "Storage", item |-> item,
      has_extended_meta |-> ext, size |-> 0 ]

Kernel(inputs, outputs) ==
    [ inputs |-> inputs, outputs |-> outputs, named |-> <<>>,
      cube_dim |-> <<1, 1, 1>>, body |-> EmptyScope ]

SeqsUpTo(S, n) == UNION {[1..k -> S] : k \in 0..n}

LocalVar(id, item) == [kind |-> "Local", id |-> id, depth |-> 0, item |-> item]

InputArray(id) == [kind |-> "GlobalInputArray", id |-> id, item |-> ItemF32]
OutputArray(id) == [kind |-> "GlobalOutputArray", id |-> id, item |-> ItemF32]

Operation(operation, out) == [operation |-> operation, out |-> out]

\* no pipeline has been asked for
NoPipeline == [state |-> "none"]

\* WgpuStorage::new: no buffer, nothing tagged
WgpuStorageNew == [memory |-> [id \in {} |-> 0], deallocations |-> <<>>]

\* no id issued by StorageId::new, no handle returned, no buffer destroyed,
\* no call made
NoClient ==
    [ids |-> 0, handles |-> {}, destroyed |-> {},
     last |-> [called |-> "none"], panicked |-> FALSE]

\* no cube is running
NoMatmul == [state |-> "none"]

\* before Compiler::compile is called
FreshCompile ==
    /\ pc = "new"
    /\ self = DefaultCompiler
    /\ stack = <<>>
    /\ source = <<>>
    /\ lowered = <<>>
    /\ shader = NoShader
    /\ scopes = <<>>
    /\ calls = <<>>
    /\ arg = ItemF32
    /\ result = [called |-> "none"]

InitCompiler ==
    /\ FreshCompile
    /\ pipeline = NoPipeline
    /\ storage = WgpuStorageNew
    /\ client = NoClient
    /\ matmul = NoMatmul

----------------------------------------------------------------------------
(* Metadata lowering: kernels with up to MaxBindings bindings, each with   *)
(* or without extended metadata, and metadata operations on them.          *)

MetaBindings == {Binding(ItemF32, ext) : ext \in BOOLEAN}

MetaKernels ==
    { Kernel(i, o) : <<i, o>> \in
        { io \in SeqsUpTo(MetaBindings, MaxBindings)
                    \X SeqsUpTo(MetaBindings, MaxBindings) :
            Len(io[1]) + Len(io[2]) <= MaxBindings } }

GlobalArrays ==
    {InputArray(id) : id \in 0..(MaxBindings - 1)}
        \cup {OutputArray(id) : id \in 0..(MaxBindings - 1)}

MetaOperations ==
    { Operation([op |-> "Metadata", metadata |-> [name |-> n, var |-> v]],
                LocalVar(0, ItemU32)) :
        n \in {"Rank", "Length", "BufferLength"}, v \in GlobalArrays }
    \cup
    { Operation([op |-> "Metadata",
                 metadata |-> [name |-> n, var |-> v, dim |-> ConstantU32(1)]],
                LocalVar(0, ItemU32)) :
        n \in {"Shape", "Stride"}, v \in GlobalArrays }

InitMeta ==
    /\ InitCompiler
    /\ target_os = "linux"
    /\ mode = "Checked"
    /\ kernel \in MetaKernels

LowerMetadata ==
    /\ Len(source) < MaxMetaOps
    /\ \E o \in MetaOperations : LowerOperation(o.operation, o.out)

NextMeta == Compile \/ LowerMetadata \/ Finish

SpecMeta == InitMeta /\ [][NextMeta]_vars

\* The bindings of the kernel in metadata order: inputs first, then outputs.
KernelBindings == kernel.inputs \o kernel.outputs

\* The number of bindings with extended metadata among the first n.
ExtendedAmong(n) ==
    Cardinality({j \in 1..n : KernelBindings[j].has_extended_meta})

\* The instructions of the root scope: while the body is lowered, and in the
\* shader record once it is returned.
BodyInstructions ==
    IF pc = "done" THEN shader.body.instructions ELSE stack[1].instructions

\* C1: once compile_shader has set up the metadata table, ext_meta_pos has one
\* entry per binding (inputs, then outputs), the entry of position i is the
\* number of bindings with extended metadata strictly before i, and the
\* metadata resolver holds num_meta = N and num_ext = the number of bindings
\* with extended metadata.
C1_ExtMetaPosCountsExtendedBefore ==
    pc \in {"body", "done"} =>
        /\ Len(self.ext_meta_pos) = Len(KernelBindings)
        /\ \A i \in 1..Len(KernelBindings) :
                self.ext_meta_pos[i] = ExtendedAmong(i - 1)
        /\ self.metadata.num_meta = Len(kernel.inputs) + Len(kernel.outputs)
        /\ self.metadata.num_extended_meta = ExtendedAmong(Len(KernelBindings))
        /\ self.num_inputs = Len(kernel.inputs)

\* C1 witness: three bindings, the first with extended metadata, the second
\* without, the third with: the table is 0, 1, 1 and num_ext is 2.
C1_Witness ==
    /\ pc = "body"
    /\ Len(kernel.inputs) = 1
    /\ Len(kernel.outputs) = 2
    /\ self.ext_meta_pos = <<0, 1, 1>>
    /\ self.metadata = MetadataNew(3, 2)

\* The binding position of a global array: id for an input, num_inputs + id
\* for an output.
GlobalPosition(var) ==
    IF var.kind = "GlobalInputArray" THEN var.id ELSE Len(kernel.inputs) + var.id

\* The offset `offset` is the one a metadata operation on a global array
\* must load from.
LoadsExpectedOffset(metadata, offset) ==
    LET m == MetadataNew(Len(KernelBindings), ExtendedAmong(Len(KernelBindings)))
        position == GlobalPosition(metadata.var)
        InTable == position + 1 \in DOMAIN self.ext_meta_pos
    IN  CASE metadata.name = "Length" -> offset = len_index(m, position)
          [] metadata.name = "BufferLength" ->
                offset = buffer_len_index(m, position)
          [] metadata.name = "Rank" ->
                /\ InTable
                /\ offset = rank_index(m, self.ext_meta_pos[position + 1])
          [] metadata.name = "Shape" ->
                /\ InTable
                /\ offset = shape_offset_index(m, self.ext_meta_pos[position + 1])
          [] metadata.name = "Stride" ->
                /\ InTable
                /\ offset = stride_offset_index(m, self.ext_meta_pos[position + 1])

\* the k-th operation lowered is a metadata operation on a global array
IsGlobalMetadata(k) ==
    /\ source[k].operation.op = "Metadata"
    /\ source[k].operation.metadata.var.kind
            \in {"GlobalInputArray", "GlobalOutputArray"}

\* C2: every metadata operation on a global array that is lowered loads from
\* the offset of its binding position: id for GlobalInputArray(id),
\* num_inputs + id for GlobalOutputArray(id); Length through len_index,
\* BufferLength through buffer_len_index, Rank / Shape / Stride through
\* rank_index / shape_offset_index / stride_offset_index of
\* ext_meta_pos[position].
C2_MetadataUsesBindingPosition ==
    pc \in {"body", "done"} =>
        /\ Len(BodyInstructions) = Len(source)
        /\ \A k \in 1..Len(source) :
                IsGlobalMetadata(k) =>
                    /\ BodyInstructions[k].tag \in {"Metadata", "ExtendedMeta"}
                    /\ LoadsExpectedOffset(source[k].operation.metadata,
                            BodyInstructions[k].info_offset.value.v)

\* C2 witness: a kernel with one input and two outputs, all with extended
\* metadata, whose body reads the stride of output 1 (position 2): the load
\* is at stride_offset_index(2) = 2 * 3 + 2 * 3 + 2.
C2_Witness ==
    /\ pc = "done"
    /\ Len(kernel.inputs) = 1
    /\ Len(kernel.outputs) = 2
    /\ \A j \in 1..3 : KernelBindings[j].has_extended_meta
    /\ Len(source) = 1
    /\ source[1].operation.metadata.name = "Stride"
    /\ source[1].operation.metadata.var = OutputArray(1)
    /\ shader.body.instructions[1].info_offset.value.v = 14

----------------------------------------------------------------------------
(* Built-ins: kernels whose operations copy a built-in to a local.         *)

ItemVec4 == ItemOf(ElemF32, 4)

BuiltinVar(b) == [kind |-> "Builtin", builtin |-> b, item |-> ItemU32]

BuiltinOperations ==
    { Operation([op |-> "Copy", variable |-> BuiltinVar(b)], LocalVar(0, ItemU32)) :
        b \in Builtins }

InitBuiltin ==
    /\ InitCompiler
    /\ target_os = "linux"
    /\ mode = "Checked"
    /\ kernel = Kernel(<<>>, <<Binding(ItemF32, FALSE)>>)

LowerBuiltin ==
    /\ Len(source) < MaxBuiltinOps
    /\ \E o \in BuiltinOperations : LowerOperation(o.operation, o.out)

NextBuiltin == Compile \/ LowerBuiltin \/ Finish

SpecBuiltin == InitBuiltin /\ [][NextBuiltin]_vars

\* The built-in table: the built-ins that set each flag.
FlagBuiltins(flag) ==
    CASE flag = "id" -> {"AbsolutePos"}
      [] flag = "local_invocation_index" -> {"UnitPos"}
      [] flag = "local_invocation_id" -> {"UnitPosX", "UnitPosY", "UnitPosZ"}
      [] flag = "workgroup_id" -> {"CubePosX", "CubePosY", "CubePosZ"}
      [] flag = "global_invocation_id" ->
            {"AbsolutePosX", "AbsolutePosY", "AbsolutePosZ"}
      [] flag = "num_workgroups" -> {"CubeCountX", "CubeCountY", "CubeCountZ"}
      [] flag = "workgroup_id_no_axis" -> {"CubePos"}
      [] flag = "workgroup_size_no_axis" -> {"CubeDim"}
      [] flag = "num_workgroup_no_axis" -> {"CubeCount"}
      [] flag = "subgroup_size" -> {"SubcubeDim"}

\* The built-ins lowered so far.
LoweredBuiltins ==
    {lowered[k].builtin : k \in {j \in 1..Len(lowered) : lowered[j].kind = "Builtin"}}

\* C3: at every point of a compile, and so at its end, each built-in "used"
\* flag is true iff a built-in that the table maps to it has been lowered:
\* a lowering sets its own flag and no other, and CubeDimX/Y/Z set none.
C3_FlagIffBuiltinLowered ==
    pc \in {"body", "done"} =>
        \A flag \in Flags :
            self[flag] <=> (LoweredBuiltins \cap FlagBuiltins(flag) # {})

\* C3 witness: a finished compile that lowered AbsolutePos and CubeDimX only:
\* id is the one flag set.
C3_Witness ==
    /\ pc = "done"
    /\ LoweredBuiltins = {"AbsolutePos", "CubeDimX"}
    /\ self.id
    /\ \A flag \in Flags \ {"id"} : ~self[flag]

\* C4: the shader record advertises num_workgroups iff one of id,
\* num_workgroups, num_workgroup_no_axis, workgroup_id_no_axis is set,
\* workgroup_id iff one of workgroup_id, workgroup_id_no_axis is set, and
\* global_invocation_id iff one of global_invocation_id, id is set; a kernel
\* that references AbsolutePos advertises global_invocation_id and
\* num_workgroups, a kernel whose only built-ins are AbsolutePosX/Y/Z
\* advertises global_invocation_id and not num_workgroups.
C4_AdvertisedFlags ==
    pc = "done" =>
        /\ shader.num_workgroups <=>
                (\E f \in {"id", "num_workgroups", "num_workgroup_no_axis",
                           "workgroup_id_no_axis"} : self[f])
        /\ shader.workgroup_id <=>
                (\E f \in {"workgroup_id", "workgroup_id_no_axis"} : self[f])
        /\ shader.global_invocation_id <=>
                (\E f \in {"global_invocation_id", "id"} : self[f])
        /\ "AbsolutePos" \in LoweredBuiltins =>
                shader.global_invocation_id /\ shader.num_workgroups
        /\ ( /\ LoweredBuiltins # {}
             /\ LoweredBuiltins \subseteq
                    {"AbsolutePosX", "AbsolutePosY", "AbsolutePosZ"} ) =>
                shader.global_invocation_id /\ ~shader.num_workgroups

\* C4 witness: the kernel that reads AbsolutePosX and AbsolutePosY only.
C4_Witness ==
    /\ pc = "done"
    /\ LoweredBuiltins = {"AbsolutePosX", "AbsolutePosY"}
    /\ shader.global_invocation_id
    /\ ~shader.num_workgroups

\* C4 witness of the composite: the kernel that reads AbsolutePos only.
C4_WitnessAbsolutePos ==
    /\ pc = "done"
    /\ LoweredBuiltins = {"AbsolutePos"}
    /\ ~self.global_invocation_id /\ shader.global_invocation_id
    /\ ~self.num_workgroups /\ shader.num_workgroups

----------------------------------------------------------------------------
(* Shared memories and local arrays: kernels whose operations copy an      *)
(* array variable to a local; ids repeat, with the same or another length  *)
(* or item.                                                                *)

ArrayShapes ==
    { [item |-> ItemF32, length |-> 4], [item |-> ItemVec4, length |-> 4],
      [item |-> ItemF32, length |-> 8] }

SharedMemoryVar(id, shape) ==
    [kind |-> "SharedMemory", id |-> id, length |-> shape.length,
     item |-> shape.item]

LocalArrayVar(id, shape) ==
    [kind |-> "LocalArray", id |-> id, depth |-> 0, length |-> shape.length,
     item |-> shape.item]

ArrayVars ==
    {SharedMemoryVar(id, sh) : id \in 0..MaxArrayId, sh \in ArrayShapes}
        \cup {LocalArrayVar(id, sh) : id \in 0..MaxArrayId, sh \in ArrayShapes}

ArrayOperations ==
    { Operation([op |-> "Copy", variable |-> v], LocalVar(0, ItemF32)) :
        v \in ArrayVars }

InitArrays ==
    /\ InitCompiler
    /\ target_os = "linux"
    /\ mode = "Checked"
    /\ kernel = Kernel(<<>>, <<Binding(ItemF32, FALSE)>>)

LowerArray ==
    /\ Len(source) < MaxArrayOps
    /\ \E o \in ArrayOperations : LowerOperation(o.operation, o.out)

NextArrays == Compile \/ LowerArray \/ Finish

SpecArrays == InitArrays /\ [][NextArrays]_vars

\* The positions in `lowered` of the first reference to each id of a kind.
FirstReferences(kind) ==
    { k \in 1..Len(lowered) :
        /\ lowered[k].kind = kind
        /\ \A j \in 1..(k - 1) :
                ~(lowered[j].kind = kind /\ lowered[j].id = lowered[k].id) }

\* The n-th smallest element of a set of positions.
RECURSIVE Nth(_, _)
Nth(S, n) ==
    LET least == CHOOSE x \in S : \A y \in S : x <= y
    IN  IF n = 1 THEN least ELSE Nth(S \ {least}, n - 1)

\* `list` declares exactly the first references of the kind, in their order,
\* each with the item and the length of that reference.
DeclaresFirstReferences(list, kind) ==
    /\ Len(list) = Cardinality(FirstReferences(kind))
    /\ \A n \in 1..Len(list) :
            LET first == lowered[Nth(FirstReferences(kind), n)]
            IN  /\ list[n].index = first.id
                /\ list[n].item = compile_item(first.item)
                /\ list[n].size = first.length

\* C5: after any sequence of variable lowerings, shared_memories and
\* local_arrays hold one entry per distinct id referenced, in order of first
\* reference, each with the item and length of the first reference to its id
\* (so a reference to a declared id changes neither list).
C5_ArraysDeclaredOncePerId ==
    pc \in {"body", "done"} =>
        /\ DeclaresFirstReferences(self.shared_memories, "SharedMemory")
        /\ DeclaresFirstReferences(self.local_arrays, "LocalArray")
        /\ \A a, b \in 1..Len(self.shared_memories) :
                self.shared_memories[a].index = self.shared_memories[b].index
                    => a = b
        /\ \A a, b \in 1..Len(self.local_arrays) :
                self.local_arrays[a].index = self.local_arrays[b].index => a = b

\* C5 witness: three references to shared memory 1, the later ones with
\* another length or item than the first, and the one declaration of it (of
\* the first reference) in the shader record.
C5_Witness ==
    /\ pc = "done"
    /\ Len(source) = 3
    /\ \A k \in 1..3 : source[k].operation.variable.kind = "SharedMemory"
    /\ \A k \in 1..3 : source[k].operation.variable.id = 1
    /\ source[1].operation.variable.length = 8
    /\ source[2].operation.variable.length = 4
    /\ source[3].operation.variable.item = ItemVec4
    /\ shader.shared_memories =
            << [index |-> 1, item |-> [vec |-> "Scalar", elem |-> "F32"],
                size |-> 8] >>

----------------------------------------------------------------------------
(* Extensions: kernels of Powf, Erf and Tanh operations, at the top level  *)
(* and nested in the scopes of branches.                                   *)

ConstantF32 ==
    [kind |-> "ConstantScalar", value |-> [elem |-> ElemF32, v |-> 2],
     item |-> ItemF32]

ConstantBool ==
    [kind |-> "ConstantScalar", value |-> [elem |-> ElemBool, v |-> 1],
     item |-> ItemOf(ElemBool, 0)]

Operator(name, fields) == [op |-> "Operator", operator |-> [name |-> name] @@ fields]

ExtOperations ==
    { Operation(Operator("Powf", [lhs |-> LocalVar(0, ItemVec4), rhs |-> rhs]),
                LocalVar(0, ItemVec4)) :
        rhs \in {ConstantF32, LocalVar(1, ItemVec4), LocalVar(1, ItemF32)} }
    \cup
    { Operation(Operator(name, [input |-> LocalVar(1, ItemVec4)]),
                LocalVar(0, ItemVec4)) :
        name \in {"Erf", "Tanh"} }

MaxCases == 1   \* cases of a Switch

InitExt ==
    /\ InitCompiler
    /\ target_os \in {"linux", "macos"}
    /\ mode = "Checked"
    /\ kernel = Kernel(<<>>, <<Binding(ItemF32, FALSE)>>)

LowerExt ==
    /\ Len(source) < MaxExtOps
    /\ \E o \in ExtOperations : LowerOperation(o.operation, o.out)

OpenIf ==
    /\ Len(source) < MaxExtOps
    /\ \E tag \in {"If", "IfElse"} :
            OpenBranch(tag, <<ConstantBool>>, FALSE, EmptyScope, NoOut)

OpenSwitch ==
    /\ Len(source) < MaxExtOps
    /\ OpenBranch("Switch", <<LocalVar(2, ItemU32)>>, FALSE, EmptyScope, NoOut)

OpenLoop ==
    /\ Len(source) < MaxExtOps
    /\ \/ OpenBranch("Loop", <<>>, FALSE, EmptyScope, NoOut)
       \/ OpenBranch("RangeLoop",
                     <<LocalVar(2, ItemU32), ConstantU32(0), ConstantU32(0)>>,
                     FALSE, EmptyScope, NoOut)

OpenElse == ElseScope(EmptyScope)

OpenCase ==
    /\ pc = "body" /\ Len(stack) > 0
    /\ Top.branch.phase = "cases"
    /\ Len(Top.branch.cases) < MaxCases
    /\ SwitchCase(ConstantU32(1), EmptyScope)

NextExt ==
    \/ Compile
    \/ LowerExt
    \/ OpenIf
    \/ OpenSwitch
    \/ OpenLoop
    \/ CloseScope
    \/ OpenElse
    \/ DefaultDone
    \/ OpenCase
    \/ CaseDone
    \/ SwitchDone
    \/ Finish

SpecExt == InitExt /\ [][NextExt]_vars

\* rhs is an always-scalar variable (a global scalar, a constant scalar, a
\* built-in) or its item has one lane.
ScalarRhs(rhs) ==
    \/ rhs.tag \in {"GlobalScalar", "ConstantScalar"} \cup BuiltinTags
    \/ VariableItem(rhs).vec = "Scalar"

\* The extensions that the rules require for one instruction, in rule order.
RuleExtensions(instruction, os) ==
    CASE instruction.tag = "Powf" ->
            << Extension("PowfPrimitive", VariableItem(instruction.out)),
               Extension(IF ScalarRhs(instruction.rhs) THEN "PowfScalar"
                         ELSE "Powf", VariableItem(instruction.out)) >>
      [] instruction.tag = "Erf" ->
            << Extension("Erf", VariableItem(instruction.input)) >>
      [] instruction.tag = "Tanh" /\ os = "macos" ->
            << Extension("SafeTanh", VariableItem(instruction.input)) >>
      [] OTHER -> <<>>

Range(seq) == {seq[k] : k \in 1..Len(seq)}

\* The scopes nested in a control-flow instruction, in source order;
\* withSwitch tells whether the scopes of a Switch count.
NestedScopes(instruction, withSwitch) ==
    CASE instruction.tag \in {"If", "Loop", "RangeLoop"} ->
            << instruction.instructions >>
      [] instruction.tag = "IfElse" ->
            << instruction.instructions_if, instruction.instructions_else >>
      [] instruction.tag = "Switch" /\ withSwitch ->
            << instruction.instructions_default >>
                \o [k \in 1..Len(instruction.cases) |-> instruction.cases[k][2]]
      [] OTHER -> <<>>

\* The instructions of a list in a depth-first, source-order walk: each
\* instruction, then those of its nested scopes.
RECURSIVE Walk(_, _)
RECURSIVE WalkScopes(_, _)
WalkScopes(nested, withSwitch) ==
    IF nested = <<>> THEN <<>>
    ELSE Walk(Head(nested), withSwitch) \o WalkScopes(Tail(nested), withSwitch)

Walk(instructions, withSwitch) ==
    IF instructions = <<>> THEN <<>>
    ELSE << Head(instructions) >>
            \o WalkScopes(NestedScopes(Head(instructions), withSwitch), withSwitch)
            \o Walk(Tail(instructions), withSwitch)

\* The extensions required along a walk, one entry per requirement.
RECURSIVE Requirements(_, _)
Requirements(walk, os) ==
    IF walk = <<>> THEN <<>>
    ELSE RuleExtensions(Head(walk), os) \o Requirements(Tail(walk), os)

\* A sequence without its repetitions: the first occurrence of each entry.
RECURSIVE FirstOccurrences(_)
FirstOccurrences(seq) ==
    IF seq = <<>> THEN <<>>
    ELSE LET front == FirstOccurrences(SubSeq(seq, 1, Len(seq) - 1))
             last == seq[Len(seq)]
         IN  IF last \in Range(front) THEN front ELSE Append(front, last)

\* C6 (as claimed): the extension list of the compiled shader contains every
\* extension required by an instruction of the body at any depth, the
\* default and case scopes of a Switch included.
C6_ExtensionsCoverWholeBody ==
    pc = "done" =>
        Range(Requirements(Walk(shader.body.instructions, TRUE), target_os))
            \subseteq Range(shader.extensions)

\* C7: for every Powf instruction that register_extensions visits,
\* PowfPrimitive(out.item) is required, with PowfScalar(out.item) when rhs is
\* always scalar or has one lane and Powf(out.item) otherwise, never both;
\* every Erf instruction visited requires Erf(input.item).
C7_PowfAndErfRules ==
    pc = "done" =>
        \A instruction \in Range(Walk(shader.body.instructions, FALSE)) :
            /\ instruction.tag = "Powf" =>
                  LET item == VariableItem(instruction.out)
                      alone == register_extensions(<<instruction>>, target_os)
                  IN  /\ Extension("PowfPrimitive", item) \in Range(shader.extensions)
                      /\ ScalarRhs(instruction.rhs) =>
                            /\ Extension("PowfScalar", item)
                                    \in Range(shader.extensions)
                            /\ alone = << Extension("PowfPrimitive", item),
                                          Extension("PowfScalar", item) >>
                      /\ ~ScalarRhs(instruction.rhs) =>
                            /\ Extension("Powf", item) \in Range(shader.extensions)
                            /\ alone = << Extension("PowfPrimitive", item),
                                          Extension("Powf", item) >>
            /\ instruction.tag = "Erf" =>
                  Extension("Erf", VariableItem(instruction.input))
                        \in Range(shader.extensions)

\* C7 witness: a body with a Powf whose rhs is a one-lane local (not an
\* always-scalar variable) nested in a Loop, and an Erf: the list is
\* PowfPrimitive, PowfScalar, Erf of the four-lane item.
C7_Witness ==
    /\ pc = "done"
    /\ Len(shader.body.instructions) = 2
    /\ shader.body.instructions[1].tag = "Loop"
    /\ Len(shader.body.instructions[1].instructions) = 1
    /\ shader.body.instructions[1].instructions[1].tag = "Powf"
    /\ shader.body.instructions[1].instructions[1].rhs.tag = "Local"
    /\ shader.body.instructions[1].instructions[1].rhs.item.vec = "Scalar"
    /\ shader.body.instructions[2].tag = "Erf"
    /\ shader.extensions =
            << Extension("PowfPrimitive", [vec |-> "Vec4", elem |-> "F32"]),
               Extension("PowfScalar", [vec |-> "Vec4", elem |-> "F32"]),
               Extension("Erf", [vec |-> "Vec4", elem |-> "F32"]) >>

\* C8: the extension list has no duplicates and lists the extensions in the
\* order of their first occurrence in the depth-first, source-order walk of
\* the body through the If, IfElse, Loop and RangeLoop bodies, whose
\* extensions are merged into the one top-level list.
C8_ExtensionsInFirstOccurrenceOrder ==
    pc = "done" =>
        /\ \A a, b \in 1..Len(shader.extensions) :
                shader.extensions[a] = shader.extensions[b] => a = b
        /\ shader.extensions =
                FirstOccurrences(
                    Requirements(Walk(shader.body.instructions, FALSE), target_os))

\* Powf instruction whose rhs has the given tag and lane shape.
IsPowfWith(instruction, tag, vec) ==
    IF instruction.tag = "Powf"
    THEN instruction.rhs.tag = tag /\ VariableItem(instruction.rhs).vec = vec
    ELSE FALSE

\* C8 witness: in the body of an If, a Powf with a constant scalar rhs
\* followed by a Powf with a four-lane rhs on the same item: PowfPrimitive
\* is requested twice and listed once, before PowfScalar and Powf.
C8_Witness ==
    /\ pc = "done"
    /\ Len(shader.body.instructions) = 1
    /\ IF shader.body.instructions[1].tag = "If"
       THEN /\ Len(shader.body.instructions[1].instructions) = 2
            /\ IsPowfWith(shader.body.instructions[1].instructions[1],
                          "ConstantScalar", "Scalar")
            /\ IsPowfWith(shader.body.instructions[1].instructions[2],
                          "Local", "Vec4")
       ELSE FALSE
    /\ shader.extensions =
            << Extension("PowfPrimitive", [vec |-> "Vec4", elem |-> "F32"]),
               Extension("PowfScalar", [vec |-> "Vec4", elem |-> "F32"]),
               Extension("Powf", [vec |-> "Vec4", elem |-> "F32"]) >>

----------------------------------------------------------------------------
(* Type mapping: compile_elem, compile_item and elem_size applied to any   *)
(* item, and compiles of kernels whose bindings and variables carry it.    *)

MaxTypeOps == 2      \* operations in a kernel body of the type-mapping runs

TypeKernels(item) ==
    { Kernel(<<>>, <<>>),
      Kernel(<<Binding(item, FALSE)>>, <<>>),
      Kernel(<<Binding(ItemF32, FALSE)>>, <<Binding(item, FALSE)>>) }

InitType ==
    /\ pc = "new"
    /\ self = DefaultCompiler
    /\ stack = <<>>
    /\ source = <<>>
    /\ lowered = <<>>
    /\ shader = NoShader
    /\ scopes = <<>>
    /\ calls = <<>>
    /\ pipeline = NoPipeline
    /\ storage = WgpuStorageNew
    /\ client = NoClient
    /\ matmul = NoMatmul
    /\ result = [called |-> "none"]
    /\ target_os = "linux"
    /\ mode = "Checked"
    /\ arg \in Items
    /\ kernel \in TypeKernels(arg)

Called(name, value) ==
    /\ pc = "new"
    /\ result.called = "none"
    /\ result' = [called |-> name, value |-> value]
    /\ UNCHANGED <<pc, target_os, mode, kernel, scopes, calls, pipeline,
                   storage, client, matmul, self, stack, source, lowered,
                   shader, arg>>

CallCompileElem == Called("compile_elem", compile_elem(arg.elem))

CallCompileItem == Called("compile_item", compile_item(arg))

CallElemSize == Called("elem_size", elem_size(arg.elem))

\* a copy between a local of the item under test and a float local, either way
TypeOperations ==
    { Operation([op |-> "Copy", variable |-> LocalVar(0, arg)], LocalVar(1, ItemF32)),
      Operation([op |-> "Copy", variable |-> LocalVar(1, ItemF32)], LocalVar(0, arg)),
      Operation([op |-> "Copy", variable |-> LocalVar(1, ItemF32)],
                LocalVar(2, ItemF32)) }

LowerTyped ==
    /\ Len(source) < MaxTypeOps
    /\ \E o \in TypeOperations : LowerOperation(o.operation, o.out)

NextType ==
    \/ CallCompileElem
    \/ CallCompileItem
    \/ CallElemSize
    \/ Compile
    \/ LowerTyped
    \/ Finish

SpecType == InitType /\ [][NextType]_vars

\* The target element of each supported cube element.
SupportedElems ==
    ( [ty |-> "Float", kind |-> "Flex32"] :> "F32" )
        @@ ( [ty |-> "Float", kind |-> "F32"] :> "F32" )
        @@ ( [ty |-> "Int", kind |-> "I32"] :> "I32" )
        @@ ( [ty |-> "UInt", kind |-> "U32"] :> "U32" )
        @@ ( [ty |-> "Bool", kind |-> "Bool"] :> "Bool" )
        @@ ( [ty |-> "AtomicInt", kind |-> "I32"] :> "AtomicI32" )
        @@ ( [ty |-> "AtomicUInt", kind |-> "U32"] :> "AtomicU32" )

Supported(elem) == elem \in DOMAIN SupportedElems

\* The items of the variables that the operations handed to the compiler
\* refer to, and of the bindings of the kernel.
VariableItems ==
    UNION { {source[k].operation.variable.item, source[k].out.item} :
                k \in 1..Len(source) }

BindingItems ==
    { (kernel.inputs \o kernel.outputs \o kernel.named)[k].item :
        k \in 1..Len(kernel.inputs) + Len(kernel.outputs) + Len(kernel.named) }

\* C9: compile_elem maps Flex32 and F32 to f32, I32 to i32, U32 to u32, Bool
\* to bool, AtomicInt(I32) to atomic<i32>, AtomicUInt(U32) to atomic<u32> and
\* fails on every other element; elem_size fails on exactly the same
\* elements; a compile that has lowered a variable with an unsupported
\* element has failed, a compile of a kernel with a binding of an
\* unsupported element never completes, and neither yields a shader.
C9_ElemMapping ==
    /\ result.called = "compile_elem" =>
            IF Supported(arg.elem)
            THEN result.value = SupportedElems[arg.elem]
            ELSE result.value = PanicElem
    /\ result.called = "elem_size" => (result.value.ok <=> Supported(arg.elem))
    /\ (\E item \in VariableItems : ~Supported(item.elem)) =>
            pc = "panicked" /\ shader = NoShader
    /\ (\E item \in BindingItems : ~Supported(item.elem)) =>
            pc # "done" /\ shader = NoShader
    /\ pc # "done" => shader = NoShader

\* C9 witness: on Float(F16) elem_size has failed, and the compile of a
\* kernel with an F16 binding and a copy from an F16 local has failed
\* without a shader.
C9_Witness ==
    /\ arg.elem = [ty |-> "Float", kind |-> "F16"]
    /\ result.called = "elem_size"
    /\ ~result.value.ok
    /\ Len(kernel.inputs) = 1
    /\ Len(source) = 1
    /\ source[1].operation.variable.item = arg
    /\ pc = "panicked"
    /\ shader = NoShader

\* C9 witness: Float(Flex32) is mapped to f32.
C9_WitnessFlex32 ==
    /\ arg.elem = [ty |-> "Float", kind |-> "Flex32"]
    /\ result.called = "compile_elem"
    /\ result.value = "F32"

\* The lane shape of each supported vectorization factor.
SupportedFactors ==
    (1 :> "Scalar") @@ (2 :> "Vec2") @@ (3 :> "Vec3") @@ (4 :> "Vec4")

\* C10: on an item with a supported element, compile_item yields Scalar,
\* Vec2, Vec3, Vec4 of the target element for the vectorization 1, 2, 3, 4,
\* Scalar for an absent vectorization, and fails for every other factor.
C10_ItemMapping ==
    (result.called = "compile_item" /\ Supported(arg.elem)) =>
        CASE arg.vectorization = 0 ->
                result.value = [vec |-> "Scalar", elem |-> SupportedElems[arg.elem]]
          [] arg.vectorization \in DOMAIN SupportedFactors ->
                result.value = [vec |-> SupportedFactors[arg.vectorization],
                                elem |-> SupportedElems[arg.elem]]
          [] OTHER -> result.value = PanicItem

\* C10 witness: a u32 item of vectorization 3 is mapped to Vec3 of u32.
C10_Witness ==
    /\ result.called = "compile_item"
    /\ arg = ItemOf(ElemU32, 3)
    /\ result.value = [vec |-> "Vec3", elem |-> "U32"]

\* C10 witness: an f32 item of vectorization 5 fails.
C10_WitnessFails ==
    /\ result.called = "compile_item"
    /\ arg = ItemOf(ElemF32, 5)
    /\ result.value = PanicItem

----------------------------------------------------------------------------
(* Operations the compiler rejects: operations with and without an out,    *)
(* Matrix variables, CoopMma, and metadata of variables that are no global *)
(* arrays, on a kernel with one extended input and one output.             *)

MaxOps == 2         \* operations (leaf or branch) in a kernel body

Outs == {NoOut, LocalVar(0, ItemU32)}

MatrixVar == [kind |-> "Matrix", id |-> 0, item |-> ItemF32]

SliceVar == [kind |-> "Slice", id |-> 0, depth |-> 0, item |-> ItemF32]

\* variables that are neither GlobalInputArray nor GlobalOutputArray
OtherVars ==
    { LocalVar(1, ItemF32), SliceVar,
      SharedMemoryVar(0, [item |-> ItemF32, length |-> 4]),
      LocalArrayVar(0, [item |-> ItemF32, length |-> 4]) }

MetadataOf(name, var) ==
    IF name \in {"Shape", "Stride"}
    THEN [op |-> "Metadata",
          metadata |-> [name |-> name, var |-> var, dim |-> ConstantU32(0)]]
    ELSE [op |-> "Metadata", metadata |-> [name |-> name, var |-> var]]

MetadataNames == {"Rank", "Shape", "Stride", "Length", "BufferLength"}

\* one operation of each family, to be given with or without an out
Families ==
    { [op |-> "Copy", variable |-> LocalVar(1, ItemF32)],
      Operator("Add", [lhs |-> LocalVar(1, ItemF32), rhs |-> ConstantF32]),
      [op |-> "Atomic",
       atomic |-> [name |-> "Add", lhs |-> LocalVar(1, ItemU32),
                   rhs |-> ConstantU32(1)]],
      [op |-> "Atomic", atomic |-> [name |-> "Load", input |-> LocalVar(1, ItemU32)]],
      MetadataOf("Length", InputArray(0)),
      MetadataOf("Rank", InputArray(0)),
      [op |-> "Subcube", subcube |-> [name |-> "Elect"]],
      [op |-> "Subcube", subcube |-> [name |-> "Sum", input |-> LocalVar(1, ItemF32)]],
      [op |-> "Branch", branch |-> [name |-> "Return"]],
      [op |-> "Branch", branch |-> [name |-> "Break"]],
      [op |-> "Synchronization", synchronization |-> "SyncUnits"],
      [op |-> "Synchronization", synchronization |-> "SyncStorage"] }

Rejected ==
    { [op |-> "CoopMma"],
      [op |-> "Copy", variable |-> MatrixVar],
      Operator("Add", [lhs |-> LocalVar(1, ItemF32), rhs |-> MatrixVar]) }

OpsOperations ==
    { Operation(o, out) : o \in Families, out \in Outs }
        \cup { Operation(o, LocalVar(0, ItemU32)) : o \in Rejected }
        \cup { Operation([op |-> "Copy", variable |-> LocalVar(1, ItemF32)],
                         MatrixVar) }
        \cup { Operation(MetadataOf(name, var), LocalVar(0, ItemU32)) :
                    name \in MetadataNames, var \in OtherVars }

InitOps ==
    /\ InitCompiler
    /\ target_os = "linux"
    /\ mode = "Checked"
    /\ kernel = Kernel(<<Binding(ItemF32, TRUE)>>, <<Binding(ItemF32, FALSE)>>)

LowerOp ==
    /\ Len(source) < MaxOps
    /\ \E o \in OpsOperations : LowerOperation(o.operation, o.out)

\* an If or a Loop given with or without an out
OpenWithOut ==
    /\ Len(source) < MaxOps
    /\ \E out \in Outs :
        \/ OpenBranch("If", <<ConstantBool>>, FALSE, EmptyScope, out)
        \/ OpenBranch("Loop", <<>>, FALSE, EmptyScope, out)

NextOps == Compile \/ LowerOp \/ OpenWithOut \/ CloseScope \/ Finish

SpecOps == InitOps /\ [][NextOps]_vars

\* The variables an operation names, its out included.
Fields(r) == {r[f] : f \in DOMAIN r \ {"name"}}

Named(entry) ==
    {entry.out} \cup
        CASE entry.operation.op = "Copy" -> {entry.operation.variable}
          [] entry.operation.op = "Operator" -> Fields(entry.operation.operator)
          [] entry.operation.op = "Atomic" -> Fields(entry.operation.atomic)
          [] entry.operation.op = "Subcube" -> Fields(entry.operation.subcube)
          [] OTHER -> {}

\* The instructions emitted so far, nested ones included, counting one for
\* each branch whose scope is still being lowered.
RECURSIVE EmittedIn(_)
EmittedIn(frames) ==
    IF frames = <<>> THEN 0
    ELSE Len(Walk(Head(frames).instructions, TRUE)) + EmittedIn(Tail(frames))

EmittedCount == EmittedIn(stack) + Len(stack) - 1

\* C11: an operation that is a CoopMma, or that names a Matrix variable,
\* fails the compile when it is lowered: no instruction is emitted for it
\* and no shader record exists.
C11_MatrixAndCoopMmaRejected ==
    \A k \in 1..Len(source) :
        (source[k].operation.op = "CoopMma"
            \/ \E v \in Named(source[k]) : v.kind = "Matrix") =>
                /\ pc = "panicked"
                /\ k = Len(source)
                /\ shader = NoShader
                /\ EmittedCount = Len(source) - 1

\* C11 witness: after one operation lowered to an instruction, an Add whose
\* rhs is a Matrix variable has failed the compile with that one instruction.
C11_Witness ==
    /\ pc = "panicked"
    /\ Len(source) = 2
    /\ source[2].operation.op = "Operator"
    /\ source[2].operation.operator.rhs = MatrixVar
    /\ EmittedCount = 1
    /\ shader = NoShader

\* C11 witness: a CoopMma operation has failed the compile.
C11_WitnessCoopMma ==
    /\ pc = "panicked"
    /\ Len(source) = 1
    /\ source[1].operation.op = "CoopMma"
    /\ EmittedCount = 0

\* The instruction of the operation lowered last: the last instruction of
\* the innermost list, inside the If and Loop instructions closed after it.
RECURSIVE LastLeaf(_)
LastLeaf(instructions) ==
    IF instructions[Len(instructions)].tag \in {"If", "Loop"}
       /\ instructions[Len(instructions)].instructions # <<>>
    THEN LastLeaf(instructions[Len(instructions)].instructions)
    ELSE instructions[Len(instructions)]

NeedsOut == {"Copy", "Operator", "Atomic", "Metadata", "Subcube"}

\* The instruction of a Synchronization, a Return or a Break.
PlainInstruction(operation) ==
    CASE operation.op = "Synchronization" ->
            (IF operation.synchronization = "SyncUnits"
             THEN [tag |-> "WorkgroupBarrier"] ELSE [tag |-> "StorageBarrier"])
      [] operation.op = "Branch" -> [tag |-> operation.branch.name]

\* C12: a Copy, Operator, Atomic, Metadata or Subcube operation given
\* without an out fails the compile; a Branch or Synchronization operation
\* never fails it, with or without an out, and a Synchronization, Return or
\* Break lowers to the same instruction either way.
C12_OutRequired ==
    /\ \A k \in 1..Len(source) :
            (source[k].operation.op \in NeedsOut /\ source[k].out = NoOut) =>
                pc = "panicked" /\ k = Len(source) /\ shader = NoShader
    /\ pc = "panicked" =>
            source[Len(source)].operation.op \notin {"Branch", "Synchronization"}
    /\ (pc = "body" /\ Len(source) > 0) =>
            LET last == source[Len(source)].operation
            IN  (\/ last.op = "Synchronization"
                 \/ last.op = "Branch" /\ last.branch.name \in {"Return", "Break"})
                    => LastLeaf(Top.instructions) = PlainInstruction(last)

\* C12 witness: a SyncUnits given without an out has been lowered to a
\* barrier, and the Atomic operation without an out after it has failed the
\* compile.
C12_Witness ==
    /\ pc = "panicked"
    /\ Len(source) = 2
    /\ source[1].operation.op = "Synchronization"
    /\ source[1].out = NoOut
    /\ source[2].operation.op = "Atomic"
    /\ source[2].out = NoOut
    /\ Top.instructions = << [tag |-> "WorkgroupBarrier"] >>

\* C12 witness: a compile is done whose body is an If given without an out
\* around a Return given with one.
C12_WitnessBranches ==
    /\ pc = "done"
    /\ Len(source) = 2
    /\ source[1].operation.op = "Branch" /\ source[1].out = NoOut
    /\ source[2].operation.op = "Branch" /\ source[2].out # NoOut
    /\ Len(shader.body.instructions) = 1
    /\ shader.body.instructions[1].tag = "If"
    /\ shader.body.instructions[1].instructions = << [tag |-> "Return"] >>

GlobalKinds == {"GlobalInputArray", "GlobalOutputArray"}

\* a metadata operation, given with an out, on a variable that is no global
\* array
OnOtherVariable(entry, names) ==
    /\ entry.operation.op = "Metadata"
    /\ entry.out # NoOut
    /\ entry.operation.metadata.name \in names
    /\ entry.operation.metadata.var.kind \notin GlobalKinds

\* C13: Rank, Shape or Stride of a variable that is no global array fails
\* the compile; Length or BufferLength of such a variable does not, and is
\* lowered to a Length instruction over the lowered variable, not to a load
\* from the metadata table.
C13_MetadataOfOtherVariables ==
    \A k \in 1..Len(source) :
        /\ OnOtherVariable(source[k], {"Rank", "Shape", "Stride"}) =>
                pc = "panicked" /\ k = Len(source) /\ shader = NoShader
        /\ OnOtherVariable(source[k], {"Length", "BufferLength"}) =>
                /\ ~(pc = "panicked" /\ k = Len(source))
                /\ (pc = "body" /\ k = Len(source)) =>
                        /\ LastLeaf(Top.instructions).tag = "Length"
                        /\ LastLeaf(Top.instructions).var.tag
                                = source[k].operation.metadata.var.kind
                        /\ LastLeaf(Top.instructions).var.id
                                = source[k].operation.metadata.var.id
                        /\ LastLeaf(Top.instructions).out.tag = "Local"
                        /\ LastLeaf(Top.instructions).out.id = source[k].out.id

\* C13 witness: after the BufferLength of a slice was lowered to a Length
\* instruction, the Shape of a shared memory has failed the compile.
C13_Witness ==
    /\ pc = "panicked"
    /\ Len(source) = 2
    /\ OnOtherVariable(source[1], {"BufferLength"})
    /\ source[1].operation.metadata.var = SliceVar
    /\ OnOtherVariable(source[2], {"Shape"})
    /\ source[2].operation.metadata.var.kind = "SharedMemory"
    /\ Len(Top.instructions) = 1
    /\ Top.instructions[1].tag = "Length"
    /\ Top.instructions[1].var.tag = "Slice"

----------------------------------------------------------------------------
(* Successive compile calls.  A call that returned is recorded with what   *)
(* it was given and what it returned; the next call is given another       *)
(* kernel and execution mode.  The WgslCompiler of the call that returned  *)
(* is left as it was until Compiler::compile builds the next one.          *)

MaxCalls == 2       \* compile calls in a behaviour
MaxCallOps == 1     \* operations in a kernel body, successive kernels
MaxModeOps == 1     \* operations in a kernel body, both execution modes

ExecutionModes == {"Checked", "Unchecked"}

Returned == [mode |-> mode, kernel |-> kernel, source |-> source, shader |-> shader]

\* compile returned; the caller calls it again
NextCall(kernels, modes) ==
    /\ pc = "done"
    /\ Len(calls) + 1 < MaxCalls
    /\ calls' = Append(calls, Returned)
    /\ kernel' \in kernels
    /\ mode' \in modes
    /\ pc' = "new"
    /\ stack' = <<>>
    /\ source' = <<>>
    /\ lowered' = <<>>
    /\ scopes' = <<>>
    /\ shader' = NoShader
    /\ UNCHANGED <<target_os, self, arg, result, pipeline, storage, client,
                   matmul>>

ConstantArrayVar(id, length) ==
    [kind |-> "ConstantArray", id |-> id, length |-> length, item |-> ItemF32]

\* an entry (var, values) of scope.const_arrays
ConstArray(id, values) ==
    [var |-> ConstantArrayVar(id, Len(values)), values |-> values]

\* a kernel with one output, and one with an extended input, an output and
\* a constant array in its body
CallKernels ==
    { Kernel(<<>>, <<Binding(ItemF32, FALSE)>>),
      [ Kernel(<<Binding(ItemF32, TRUE)>>, <<Binding(ItemF32, FALSE)>>)
            EXCEPT !.body.const_arrays = << ConstArray(0, <<ConstantF32>>) >> ] }

\* a built-in, a shared memory, the length of the first output
CallOperations ==
    { Operation([op |-> "Copy", variable |-> BuiltinVar("AbsolutePos")],
                LocalVar(0, ItemU32)),
      Operation([op |-> "Copy",
                 variable |-> SharedMemoryVar(0, [item |-> ItemF32, length |-> 4])],
                LocalVar(0, ItemF32)),
      Operation(MetadataOf("Length", OutputArray(0)), LocalVar(0, ItemU32)) }

InitCalls ==
    /\ InitCompiler
    /\ target_os = "linux"
    /\ mode = "Checked"
    /\ kernel \in CallKernels

LowerCallOp ==
    /\ Len(source) < MaxCallOps
    /\ \E o \in CallOperations : LowerOperation(o.operation, o.out)

CompileAnother == NextCall(CallKernels, {"Checked"})

NextCalls == Compile \/ LowerCallOp \/ Finish \/ CompileAnother

SpecCalls == InitCalls /\ [][NextCalls]_vars

\* The shader record of a compile of the straight-line body ops by a
\* compiler that compiled nothing before.
RECURSIVE Replay(_, _, _)
ReplayStep(plan, r, instructions, rest) ==
    Replay(r.self, Append(instructions, Instruction(plan.form, r.vars)), rest)

ReplayPlan(s, plan, instructions, rest) ==
    ReplayStep(plan, compile_variables(s, plan.values), instructions, rest)

Replay(s, instructions, ops) ==
    IF ops = <<>> THEN [self |-> s, instructions |-> instructions]
    ELSE ReplayPlan(s, compile_operation(s, Head(ops).operation, Head(ops).out),
                    instructions, Tail(ops))

Replayed(entered, value, ops, os) ==
    LET r == Replay(entered.self, entered.instructions, ops)
    IN  assemble_shader(r.self, value, r.instructions, os)

AloneCompiled(value, ops, os) ==
    Replayed(enter_scope(setup_metadata(DefaultCompiler, value), value.body),
             value, ops, os)

\* C14: a compile call given the kernel and body of an earlier call returns
\* the record of that call, and every call returns the record that a
\* compile of its kernel returns when nothing was compiled before.
C14_CompileIsStateless ==
    pc = "done" =>
        /\ \A i \in 1..Len(calls) :
                (calls[i].kernel = kernel /\ calls[i].source = source) =>
                    calls[i].shader = shader
        /\ shader = AloneCompiled(kernel, source, target_os)

\* C14 witness: after a compile of the kernel with a constant array, an
\* extended input and a body that used AbsolutePos, the kernel with one
\* output and a body reading the length of its output is compiled: no
\* constant array, no flag and no input of the first call is in its record.
C14_Witness ==
    /\ pc = "done"
    /\ Len(calls) = 1
    /\ Len(calls[1].shader.constant_arrays) = 1
    /\ calls[1].shader.global_invocation_id
    /\ Len(calls[1].shader.inputs) = 1
    /\ Len(source) = 1
    /\ source[1].operation.op = "Metadata"
    /\ shader.constant_arrays = <<>>
    /\ ~shader.global_invocation_id
    /\ shader.inputs = <<>>
    /\ shader.body.instructions[1].info_offset.value.v = 0

\* C14 witness: the same kernel and body compiled twice.
C14_WitnessTwice ==
    /\ pc = "done"
    /\ Len(calls) = 1
    /\ calls[1].kernel = kernel
    /\ calls[1].source = source
    /\ Len(source) = 1
    /\ Len(kernel.body.const_arrays) = 1
    /\ calls[1].shader = shader

----------------------------------------------------------------------------
(* Both execution modes: successive compiles, in either mode, of a kernel  *)
(* whose body indexes its input, checked or unchecked.                     *)

ModeKernel == Kernel(<<Binding(ItemF32, FALSE)>>, <<Binding(ItemF32, FALSE)>>)

IndexOperations ==
    { Operation(Operator(name, [lhs |-> InputArray(0), rhs |-> LocalVar(1, ItemU32)]),
                LocalVar(0, ItemF32)) :
        name \in {"Index", "UncheckedIndex"} }
    \cup
    { Operation(Operator(name, [lhs |-> LocalVar(1, ItemU32),
                                rhs |-> LocalVar(0, ItemF32)]),
                OutputArray(0)) :
        name \in {"IndexAssign", "UncheckedIndexAssign"} }

InitModes ==
    /\ InitCompiler
    /\ target_os = "linux"
    /\ mode \in ExecutionModes
    /\ kernel = ModeKernel

LowerIndex ==
    /\ Len(source) < MaxModeOps
    /\ \E o \in IndexOperations : LowerOperation(o.operation, o.out)

CompileInMode == NextCall({ModeKernel}, ExecutionModes)

NextModes == Compile \/ LowerIndex \/ Finish \/ CompileInMode

SpecModes == InitModes /\ [][NextModes]_vars

CheckedName(name) ==
    CASE name = "UncheckedIndex" -> "Index"
      [] name = "UncheckedIndexAssign" -> "IndexAssign"
      [] OTHER -> name

\* a body with each unchecked access replaced by the checked one
AsChecked(ops) ==
    [k \in 1..Len(ops) |->
        IF ops[k].operation.op = "Operator"
        THEN [ops[k] EXCEPT !.operation.operator.name = CheckedName(@)]
        ELSE ops[k]]

\* C15: a compile returns the record of every earlier compile of the same
\* kernel whose body differs at most in the checkedness of its indexed
\* accesses, whatever the execution modes of the two calls; Index and
\* UncheckedIndex are lowered to an Index instruction, IndexAssign and
\* UncheckedIndexAssign to an IndexAssign instruction.
C15_ModeAndCheckednessIgnored ==
    pc = "done" =>
        /\ \A i \in 1..Len(calls) :
                (calls[i].kernel = kernel
                    /\ AsChecked(calls[i].source) = AsChecked(source)) =>
                        calls[i].shader = shader
        /\ \A k \in 1..Len(source) :
                shader.body.instructions[k].tag
                    = CheckedName(source[k].operation.operator.name)

\* C15 witness: the kernel compiled in Checked mode with an Index, then in
\* Unchecked mode with an UncheckedIndex on the same operands: one record,
\* whose body is an Index instruction.
C15_Witness ==
    /\ pc = "done"
    /\ Len(calls) = 1
    /\ calls[1].mode = "Checked"
    /\ mode = "Unchecked"
    /\ Len(source) = 1
    /\ Len(calls[1].source) = 1
    /\ calls[1].source[1].operation.operator.name = "Index"
    /\ source[1].operation.operator.name = "UncheckedIndex"
    /\ calls[1].shader = shader
    /\ shader.body.instructions[1].tag = "Index"
    /\ shader.body.instructions[1].lhs.tag = "GlobalInputArray"

----------------------------------------------------------------------------
(* The ext_meta_pos table and the bindings with extended metadata          *)
(* (specification SpecMeta).                                               *)

\* The positions (from 1) of the bindings with extended metadata.
ExtendedPositions ==
    {i \in 1..Len(KernelBindings) : KernelBindings[i].has_extended_meta}

\* C16 (as claimed): the ext_meta_pos table has exactly E distinct entries,
\* E the number of bindings with extended metadata, and its entries are
\* strictly increasing in binding order.
C16_TableHasEDistinctIncreasingEntries ==
    pc \in {"body", "done"} =>
        /\ Cardinality(Range(self.ext_meta_pos)) = Cardinality(ExtendedPositions)
        /\ \A i, j \in 1..Len(self.ext_meta_pos) :
                i < j => self.ext_meta_pos[i] < self.ext_meta_pos[j]

\* C16 (amended): the table has one entry per binding and never decreases;
\* its entries at the E bindings with extended metadata are E distinct
\* values, strictly increasing in binding order.
C16_ExtendedEntriesDistinctIncreasing ==
    pc \in {"body", "done"} =>
        /\ Len(self.ext_meta_pos) = Len(KernelBindings)
        /\ \A i, j \in 1..Len(self.ext_meta_pos) :
                i < j => self.ext_meta_pos[i] <= self.ext_meta_pos[j]
        /\ Cardinality({self.ext_meta_pos[i] : i \in ExtendedPositions})
                = Cardinality(ExtendedPositions)
        /\ \A i, j \in ExtendedPositions :
                i < j => self.ext_meta_pos[i] < self.ext_meta_pos[j]

\* C16 witness: three bindings, the first without extended metadata and the
\* two others with: the table is 0, 0, 1, with two distinct entries at the
\* two extended bindings and a repeated entry at the first.
C16_Witness ==
    /\ pc = "body"
    /\ ExtendedPositions = {2, 3}
    /\ self.ext_meta_pos = <<0, 0, 1>>

\* A kernel whose one binding has no extended metadata: E is 0 and the
\* table has the one entry 0.
C16_WitnessNoExtended ==
    /\ pc = "body"
    /\ Len(KernelBindings) = 1
    /\ ExtendedPositions = {}
    /\ self.ext_meta_pos = <<0>>

----------------------------------------------------------------------------
(* Constant arrays: kernels whose root scope and If scopes declare         *)
(* constant arrays, two of them with the same id, and bodies that read     *)
(* them.                                                                   *)

MaxConstOps == 3    \* operations (leaf or branch) in a kernel body

ConstScope(const_arrays) == [const_arrays |-> const_arrays, variables |-> <<>>]

\* no array; array 0 of one value; array 1 of two values; an array 0 of two
\* values followed by array 1
ConstScopes ==
    { EmptyScope,
      ConstScope(<< ConstArray(0, <<ConstantF32>>) >>),
      ConstScope(<< ConstArray(1, <<ConstantF32, ConstantF32>>) >>),
      ConstScope(<< ConstArray(0, <<ConstantF32, ConstantF32>>),
                    ConstArray(1, <<ConstantF32, ConstantF32>>) >>) }

InitConst ==
    /\ InitCompiler
    /\ target_os = "linux"
    /\ mode = "Checked"
    /\ kernel \in { [Kernel(<<>>, <<Binding(ItemF32, FALSE)>>) EXCEPT !.body = scope] :
                        scope \in ConstScopes }

\* an element of constant array 0 is read
ReadConst ==
    /\ Len(source) < MaxConstOps
    /\ LowerOperation(
            Operator("Index", [lhs |-> ConstantArrayVar(0, 1), rhs |-> ConstantU32(0)]),
            LocalVar(0, ItemF32))

OpenConstScope ==
    /\ Len(source) < MaxConstOps
    /\ \E scope \in ConstScopes :
            OpenBranch("If", <<ConstantBool>>, FALSE, scope, NoOut)

NextConst == Compile \/ ReadConst \/ OpenConstScope \/ CloseScope \/ Finish

SpecConst == InitConst /\ [][NextConst]_vars

\* The constant arrays declared by the scopes handed to compile_scope, in
\* the order the scopes were handed, as (id, number of values).
RECURSIVE Declared(_)
Declared(entered) ==
    IF entered = <<>> THEN <<>>
    ELSE [k \in 1..Len(Head(entered).given.const_arrays) |->
            [index |-> Head(entered).given.const_arrays[k].var.id,
             size |-> Len(Head(entered).given.const_arrays[k].values)]]
         \o Declared(Tail(entered))

\* The declarations of a list, as (id, size).
Shapes(arrays) ==
    [k \in 1..Len(arrays) |-> [index |-> arrays[k].index, size |-> arrays[k].size]]

\* The first entry of each id, in order.
RECURSIVE FirstOfEachId(_)
FirstOfEachId(arrays) ==
    IF arrays = <<>> THEN <<>>
    ELSE LET front == FirstOfEachId(SubSeq(arrays, 1, Len(arrays) - 1))
             last == arrays[Len(arrays)]
         IN  IF \E k \in 1..Len(front) : front[k].index = last.index
             THEN front ELSE Append(front, last)

\* C17 (as claimed): no two entries of the shader's constant_arrays have the
\* same index; the list is the first sighting of each id among the constant
\* arrays of the lowered scopes, in first-encounter order.
C17_ConstantArraysDeduplicatedById ==
    pc = "done" =>
        /\ \A a, b \in 1..Len(shader.constant_arrays) :
                shader.constant_arrays[a].index = shader.constant_arrays[b].index
                    => a = b
        /\ Shapes(shader.constant_arrays) = FirstOfEachId(Declared(scopes))

\* C18: when a compile is done, every scope handed to compile_scope is left
\* with no constant array, and the shader's constant_arrays are the constant
\* arrays of those scopes, each once with its number of values as size, a
\* scope's own before those of the scopes nested in it; while the body is
\* lowered the compiler holds those of the scopes entered so far.
C18_ConstantArraysDrainedOnce ==
    /\ pc \in {"body", "done"} =>
            /\ \A k \in 1..Len(scopes) : scopes[k].const_arrays = <<>>
            /\ Shapes(self.const_arrays) = Declared(scopes)
            /\ \A k \in 1..Len(self.const_arrays) :
                    Len(self.const_arrays[k].values) = self.const_arrays[k].size
    /\ pc = "done" => shader.constant_arrays = self.const_arrays

\* C18 witness: the root scope declares array 0 with one value and reads it;
\* an If scope, with an If nested in it that declares array 1, declares
\* another array 0 of two values and array 1: the shader lists the four
\* declarations, the root's first, the inner If's last.
C18_Witness ==
    /\ pc = "done"
    /\ Len(scopes) = 3
    /\ Len(source) = 3
    /\ source[1].operation.op = "Operator"
    /\ source[3].operation.op = "Branch"
    /\ Len(shader.body.instructions) = 2
    /\ shader.body.instructions[2].tag = "If"
    /\ Len(shader.body.instructions[2].instructions) = 1
    /\ Shapes(shader.constant_arrays) =
            << [index |-> 0, size |-> 1], [index |-> 0, size |-> 2],
               [index |-> 1, size |-> 2], [index |-> 1, size |-> 2] >>

----------------------------------------------------------------------------
(* Every collected extension has an instruction behind it (specification   *)
(* SpecExt).                                                               *)

\* C19: every extension of the shader's list is the one that the rule of
\* some instruction of the lowered body, at any depth, produces; a body
\* without a Powf, an Erf or (on macOS) a Tanh has an empty list.
C19_ExtensionsJustified ==
    pc = "done" =>
        /\ \A k \in 1..Len(shader.extensions) :
                \E instruction \in Range(Walk(shader.body.instructions, TRUE)) :
                    shader.extensions[k]
                        \in Range(RuleExtensions(instruction, target_os))
        /\ (\A instruction \in Range(Walk(shader.body.instructions, TRUE)) :
                /\ instruction.tag \notin {"Powf", "Erf"}
                /\ instruction.tag = "Tanh" => target_os # "macos")
            => shader.extensions = <<>>

\* C19 witness: off macOS, a Tanh in a Loop and then an Erf: the list is the
\* Erf extension of the Erf instruction alone.
C19_Witness ==
    /\ pc = "done"
    /\ target_os = "linux"
    /\ Len(shader.body.instructions) = 2
    /\ shader.body.instructions[1].tag = "Loop"
    /\ Len(shader.body.instructions[1].instructions) = 1
    /\ shader.body.instructions[1].instructions[1].tag = "Tanh"
    /\ shader.body.instructions[2].tag = "Erf"
    /\ shader.extensions =
            << Extension("Erf", [vec |-> "Vec4", elem |-> "F32"]) >>

\* C19 witness: a body of a Tanh and an empty If, off macOS, has no extension.
C19_WitnessEmpty ==
    /\ pc = "done"
    /\ target_os = "linux"
    /\ Len(shader.body.instructions) = 2
    /\ shader.body.instructions[1].tag = "Tanh"
    /\ shader.body.instructions[2].tag = "If"
    /\ shader.extensions = <<>>

----------------------------------------------------------------------------
(* The platform branch: bodies of Tanh instructions, compiled for builds   *)
(* of several targets.  cfg(target_os = "macos") is the one test of the    *)
(* target in the compiler.                                                 *)

MaxTanhOps == 2     \* operations (leaf or branch) in a kernel body

\* values of cfg(target_os): two Apple platforms and two others
TargetOs == {"linux", "windows", "macos", "ios"}

ApplePlatforms == {"macos", "ios"}

TanhOperations ==
    { Operation(Operator("Tanh", [input |-> LocalVar(1, item)]), LocalVar(0, item)) :
        item \in {ItemF32, ItemVec4} }

InitTanh ==
    /\ InitCompiler
    /\ target_os \in TargetOs
    /\ mode = "Checked"
    /\ kernel = Kernel(<<>>, <<Binding(ItemF32, FALSE)>>)

LowerTanh ==
    /\ Len(source) < MaxTanhOps
    /\ \E o \in TanhOperations : LowerOperation(o.operation, o.out)

OpenTanhLoop ==
    /\ Len(source) < MaxTanhOps
    /\ OpenBranch("Loop", <<>>, FALSE, EmptyScope, NoOut)

NextTanh == Compile \/ LowerTanh \/ OpenTanhLoop \/ CloseScope \/ Finish

SpecTanh == InitTanh /\ [][NextTanh]_vars

\* The Tanh instruction over locals 1 and 0 of an item.
TanhOver(item) ==
    [ tag |-> "Tanh",
      input |-> [tag |-> "Local", id |-> 1, item |-> item, depth |-> 0],
      out |-> [tag |-> "Local", id |-> 0, item |-> item, depth |-> 0] ]

TanhInstructions ==
    { TanhOver([vec |-> "Scalar", elem |-> "F32"]),
      TanhOver([vec |-> "Vec4", elem |-> "F32"]) }

\* C20 (as claimed): on a build for an Apple platform every Tanh instruction
\* has SafeTanh of its input's item in the extension list; on a build for
\* any other platform a body of Tanh instructions has no extension; the
\* Tanh instruction is the same on every platform.
C20_SafeTanhOnApplePlatforms ==
    pc = "done" =>
        \A instruction \in Range(Walk(shader.body.instructions, FALSE)) :
            instruction.tag = "Tanh" =>
                /\ instruction \in TanhInstructions
                /\ target_os \in ApplePlatforms =>
                        Extension("SafeTanh", instruction.input.item)
                            \in Range(shader.extensions)
                /\ target_os \notin ApplePlatforms => shader.extensions = <<>>

\* What the code does: the same with macOS in the place of the Apple
\* platforms.
C20_SafeTanhOnMacOs ==
    pc = "done" =>
        \A instruction \in Range(Walk(shader.body.instructions, FALSE)) :
            instruction.tag = "Tanh" =>
                /\ instruction \in TanhInstructions
                /\ target_os = "macos" =>
                        Extension("SafeTanh", instruction.input.item)
                            \in Range(shader.extensions)
                /\ target_os # "macos" => shader.extensions = <<>>

\* A build for iOS has compiled a body with a Tanh on a four-lane float:
\* the Tanh instruction is there and the extension list is empty.
C20_WitnessIos ==
    /\ pc = "done"
    /\ target_os = "ios"
    /\ shader.body.instructions = << TanhOver([vec |-> "Vec4", elem |-> "F32"]) >>
    /\ shader.extensions = <<>>

\* A build for macOS has compiled the same body: the list is SafeTanh of
\* the four-lane float.
C20_WitnessMacOs ==
    /\ pc = "done"
    /\ target_os = "macos"
    /\ shader.body.instructions = << TanhOver([vec |-> "Vec4", elem |-> "F32"]) >>
    /\ shader.extensions =
            << Extension("SafeTanh", [vec |-> "Vec4", elem |-> "F32"]) >>

----------------------------------------------------------------------------
(* The instruction list of a scope: scopes that declare variables, slices  *)
(* among them, and constant arrays, lowered at the root and in the scopes  *)
(* of If and IfElse branches, with leaf operations between them.           *)

MaxScopeOps == 2    \* operations (leaf or branch) in a kernel body

ArrayOfFour == [item |-> ItemF32, length |-> 4]

\* what cube::Scope::process reports for a scope: its variables, and the
\* constant arrays the scope holds
DeclaringScope(const_arrays, variables) ==
    [const_arrays |-> const_arrays, variables |-> variables]

\* no variable; one local; a slice alone; a constant array whose value is
\* shared memory 1, with a slice, shared memory 0 and a local
DeclaringScopes ==
    { EmptyScope,
      DeclaringScope(<<>>, << LocalVar(1, ItemF32) >>),
      DeclaringScope(<<>>, << SliceVar >>),
      DeclaringScope(<< ConstArray(0, << SharedMemoryVar(1, ArrayOfFour) >>) >>,
                     << SliceVar, SharedMemoryVar(0, ArrayOfFour),
                        LocalVar(2, ItemU32) >>) }

ScopeOperations ==
    { Operation([op |-> "Copy", variable |-> LocalVar(1, ItemF32)],
                LocalVar(0, ItemF32)),
      Operation([op |-> "Branch", branch |-> [name |-> "Return"]], NoOut) }

InitScope ==
    /\ InitCompiler
    /\ target_os = "linux"
    /\ mode = "Checked"
    /\ kernel \in { [Kernel(<<>>, <<Binding(ItemF32, FALSE)>>) EXCEPT !.body = scope] :
                        scope \in DeclaringScopes }

LowerInScope ==
    /\ Len(source) < MaxScopeOps
    /\ \E o \in ScopeOperations : LowerOperation(o.operation, o.out)

OpenDeclaringIf ==
    /\ Len(source) < MaxScopeOps
    /\ \E tag \in {"If", "IfElse"}, scope \in DeclaringScopes \ {EmptyScope} :
            OpenBranch(tag, <<ConstantBool>>, FALSE, scope, NoOut)

OpenDeclaringElse == ElseScope(DeclaringScope(<<>>, << LocalVar(1, ItemF32) >>))

NextDeclaring ==
    \/ Compile
    \/ LowerInScope
    \/ OpenDeclaringIf
    \/ OpenDeclaringElse
    \/ CloseScope
    \/ Finish

SpecScope == InitScope /\ [][NextDeclaring]_vars

\* The instruction lists of a lowered body, one per scope, in the order the
\* scopes were lowered: a list, then the lists of the scopes nested in its
\* instructions.
RECURSIVE ScopeLists(_)
RECURSIVE InnerLists(_)
RECURSIVE ListsOf(_)
ListsOf(nested) ==
    IF nested = <<>> THEN <<>>
    ELSE ScopeLists(Head(nested)) \o ListsOf(Tail(nested))

InnerLists(instructions) ==
    IF instructions = <<>> THEN <<>>
    ELSE ListsOf(NestedScopes(Head(instructions), TRUE))
            \o InnerLists(Tail(instructions))

ScopeLists(instructions) == <<instructions>> \o InnerLists(instructions)

IsDeclaration(instruction) == instruction.tag = "DeclareVariable"
IsOperation(instruction) == instruction.tag # "DeclareVariable"
IsDeclared(var) == var.kind # "Slice"

\* The instruction variant of an operation of these kernels.
ExpectedTag(operation) ==
    CASE operation.op = "Copy" -> "Assign"
      [] operation.op = "Branch" -> operation.branch.name

\* A list is the declarations of the scope's variables that are no slices,
\* in order, and then instructions that are no declarations.
DeclaresThenOperates(list, variables) ==
    LET declared == SelectSeq(variables, IsDeclared)
        declarations == SelectSeq(list, IsDeclaration)
    IN  /\ Len(declarations) = Len(declared)
        /\ \A k \in 1..Len(declarations) :
                /\ list[k] = declarations[k]
                /\ list[k].var.tag = declared[k].kind
                /\ list[k].var.id = declared[k].id
        /\ \A k \in 1..Len(list) :
                IsDeclaration(list[k]) => list[k].var.tag # "Slice"

\* The constant arrays and shared memories that entering the scopes, in
\* order, leaves in the compiler: a scope's constant arrays, with their
\* values lowered, before its declarations.
RECURSIVE EnteredArrays(_)
EnteredArrays(entered) ==
    IF entered = <<>> THEN <<>>
    ELSE LET scope == Head(entered).given
         IN  [k \in 1..Len(scope.const_arrays) |-> scope.const_arrays[k].var.id]
                \o EnteredArrays(Tail(entered))

RECURSIVE SharedInOrder(_)
SharedInOrder(entered) ==
    IF entered = <<>> THEN <<>>
    ELSE LET scope == Head(entered).given
             values == IF scope.const_arrays = <<>> THEN <<>>
                       ELSE scope.const_arrays[1].values
             shared(v) == v.kind = "SharedMemory"
         IN  [k \in 1..Len(SelectSeq(values, shared)) |->
                    SelectSeq(values, shared)[k].id]
                \o [k \in 1..Len(SelectSeq(scope.variables, shared)) |->
                        SelectSeq(scope.variables, shared)[k].id]
                \o SharedInOrder(Tail(entered))

\* C21: the instruction list of every lowered scope is one DeclareVariable
\* per variable of the scope that is no Slice, in the scope's order, and
\* then one instruction per operation of the source in source order, with
\* no declaration after an operation's instruction and no declaration of a
\* Slice; the constant arrays of a scope are in the compiler's list, their
\* values lowered, before the scope's declarations are.
C21_ScopeDeclaresThenLowersInOrder ==
    /\ pc = "body" =>
            /\ \A k \in 1..Len(stack) :
                    \A a, b \in 1..Len(stack[k].instructions) :
                        (IsDeclaration(stack[k].instructions[b]) /\ a < b)
                            => IsDeclaration(stack[k].instructions[a])
            /\ [k \in 1..Len(self.const_arrays) |-> self.const_arrays[k].index]
                    = EnteredArrays(scopes)
            /\ FirstOccurrences(
                    [k \in 1..Len(self.shared_memories) |->
                        self.shared_memories[k].index])
                    = FirstOccurrences(SharedInOrder(scopes))
    /\ pc = "done" =>
            LET lists == ScopeLists(shader.body.instructions)
                operations == SelectSeq(Walk(shader.body.instructions, TRUE),
                                        IsOperation)
            IN  /\ Len(lists) = Len(scopes)
                /\ \A k \in 1..Len(lists) :
                        DeclaresThenOperates(lists[k], scopes[k].given.variables)
                /\ Len(operations) = Len(source)
                /\ \A k \in 1..Len(operations) :
                        operations[k].tag = ExpectedTag(source[k].operation)

\* The tags of an instruction list.
Tags(list) == [k \in 1..Len(list) |-> list[k].tag]

\* C21 witness: the root scope holds a constant array and declares a slice,
\* a shared memory and a local; a Copy and an If whose scope declares one
\* local are lowered: the body is two declarations, Assign and the If of a
\* declaration.
C21_Witness ==
    /\ pc = "done"
    /\ Len(scopes) = 2
    /\ Len(scopes[1].given.variables) = 3
    /\ scopes[1].given.variables[1].kind = "Slice"
    /\ Tags(shader.body.instructions)
            = << "DeclareVariable", "DeclareVariable", "Assign", "If" >>
    /\ shader.body.instructions[1].var.tag = "SharedMemory"
    /\ shader.body.instructions[2].var.tag = "Local"
    /\ Tags(shader.body.instructions[4].instructions) = << "DeclareVariable" >>
    /\ Len(shader.constant_arrays) = 1

\* C21 witness: an If whose scope declares a slice, a shared memory and a
\* local and holds a Return: the If's list is two declarations and Return.
C21_WitnessNested ==
    /\ pc = "done"
    /\ Len(scopes) = 2
    /\ Len(scopes[2].given.variables) = 3
    /\ Len(shader.body.instructions) = 1
    /\ Tags(shader.body.instructions[1].instructions)
            = << "DeclareVariable", "DeclareVariable", "Return" >>

----------------------------------------------------------------------------
(* Switch: a kernel body of one Switch, whose value may be a shared        *)
(* memory, whose default and case scopes may declare shared memories of    *)
(* the same or of other ids with other lengths, and whose case values      *)
(* repeat.                                                                 *)

MaxSwitchCases == 2     \* cases of the Switch
MaxSwitchOps == 1       \* Return operations in the scopes of the Switch

SharedOf(id, length) == SharedMemoryVar(id, [item |-> ItemF32, length |-> length])

SwitchValues == { LocalVar(2, ItemU32), SharedOf(0, 1) }

DefaultScopes == { EmptyScope, DeclaringScope(<<>>, << SharedOf(0, 2) >>) }

CaseValues == { ConstantU32(1), ConstantU32(2) }

CaseScopes ==
    { EmptyScope,
      DeclaringScope(<<>>, << SharedOf(0, 3) >>),
      DeclaringScope(<<>>, << SharedOf(1, 3) >>) }

ReturnOperation == [op |-> "Branch", branch |-> [name |-> "Return"]]

IsReturn(entry) ==
    entry.operation.op = "Branch" /\ entry.operation.branch.name = "Return"

InitSwitch ==
    /\ InitCompiler
    /\ target_os = "linux"
    /\ mode = "Checked"
    /\ kernel = Kernel(<<>>, <<Binding(ItemF32, FALSE)>>)

\* the one Switch of the body
OpenTheSwitch ==
    /\ source = <<>>
    /\ \E value \in SwitchValues, scope \in DefaultScopes :
            OpenBranch("Switch", <<value>>, FALSE, scope, NoOut)

\* a Return in the default scope or in the scope of a case
ReturnInSwitch ==
    /\ Len(stack) = 2
    /\ Len(SelectSeq(source, IsReturn)) < MaxSwitchOps
    /\ LowerOperation(ReturnOperation, NoOut)

NextCase ==
    /\ pc = "body" /\ Len(stack) > 0
    /\ Top.branch.phase = "cases"
    /\ Len(Top.branch.cases) < MaxSwitchCases
    /\ \E val \in CaseValues, scope \in CaseScopes : SwitchCase(val, scope)

NextSwitch ==
    \/ Compile
    \/ OpenTheSwitch
    \/ ReturnInSwitch
    \/ DefaultDone
    \/ NextCase
    \/ CaseDone
    \/ SwitchDone
    \/ Finish

SpecSwitch == InitSwitch /\ [][NextSwitch]_vars

\* The cases given to the Switch, in the order given: the k-th value handed
\* to compile_variable after the switch value, with the k-th scope handed to
\* compile_scope after the default scope.
GivenCases ==
    [k \in 1..(Len(scopes) - 2) |->
        [val |-> lowered[k + 1], scope |-> scopes[k + 2].given]]

\* The shared memories named by the switch value, the default scope and the
\* cases, in that order, as (id, length).
RECURSIVE SharedOfCases(_)
SharedOfCases(cases) ==
    IF cases = <<>> THEN <<>>
    ELSE [k \in 1..Len(Head(cases).scope.variables) |->
            [index |-> Head(cases).scope.variables[k].id,
             size |-> Head(cases).scope.variables[k].length]]
         \o SharedOfCases(Tail(cases))

SharedOfSwitch ==
    (IF lowered[1].kind = "SharedMemory"
     THEN << [index |-> lowered[1].id, size |-> lowered[1].length] >>
     ELSE <<>>)
    \o SharedOfCases(<< [scope |-> scopes[2].given] >>)
    \o SharedOfCases(GivenCases)

\* The instructions of a scope's list that are no declarations are as many
\* Returns as the list is given.
HoldsReturns(list) ==
    \A k \in 1..Len(list) : IsOperation(list[k]) => list[k].tag = "Return"

\* C22: the Switch instruction of a compiled body has one case per case
\* given, in the order given and with repeated values kept, each with the
\* lowering of its own value and of its own scope; the shared memories the
\* compiler declares are the first sightings in the order switch value,
\* default scope, cases in order.
C22_SwitchKeepsCasesInOrder ==
    (pc = "done" /\ source # <<>>) =>
        LET switch == shader.body.instructions[1]
        IN  /\ Len(shader.body.instructions) = 1
            /\ switch.tag = "Switch"
            /\ switch.value.tag = (IF lowered[1].kind = "SharedMemory"
                                   THEN "SharedMemory" ELSE "Local")
            /\ DeclaresThenOperates(switch.instructions_default,
                                    scopes[2].given.variables)
            /\ HoldsReturns(switch.instructions_default)
            /\ Len(switch.cases) = Len(GivenCases)
            /\ \A k \in 1..Len(GivenCases) :
                    /\ switch.cases[k][1].tag = "ConstantScalar"
                    /\ switch.cases[k][1].value = GivenCases[k].val.value
                    /\ DeclaresThenOperates(switch.cases[k][2],
                                            GivenCases[k].scope.variables)
                    /\ HoldsReturns(switch.cases[k][2])
                    /\ \A d \in 1..Len(GivenCases[k].scope.variables) :
                            switch.cases[k][2][d].var.length
                                = GivenCases[k].scope.variables[d].length
            /\ Len(SelectSeq(Walk(shader.body.instructions, TRUE), IsOperation))
                    = Len(source)
            /\ [k \in 1..Len(shader.shared_memories) |->
                    [index |-> shader.shared_memories[k].index,
                     size |-> shader.shared_memories[k].size]]
                    = FirstOfEachId(SharedOfSwitch)

\* C22 witness: a Switch on a local with two cases of the same value 1, the
\* first declaring shared memory 1 and the second shared memory 0, after a
\* default scope that declares shared memory 0 with another length: both
\* cases are kept in order, and shared memory 0 has the default's length.
C22_Witness ==
    /\ pc = "done"
    /\ Len(shader.body.instructions) = 1
    /\ shader.body.instructions[1].tag = "Switch"
    /\ shader.body.instructions[1].value.tag = "Local"
    /\ Len(shader.body.instructions[1].cases) = 2
    /\ shader.body.instructions[1].cases[1][1].value.v = 1
    /\ shader.body.instructions[1].cases[2][1].value.v = 1
    /\ Tags(shader.body.instructions[1].cases[1][2]) = << "DeclareVariable" >>
    /\ shader.body.instructions[1].cases[1][2][1].var.id = 1
    /\ Tags(shader.body.instructions[1].cases[2][2])
            = << "DeclareVariable", "Return" >>
    /\ shader.body.instructions[1].cases[2][2][1].var.id = 0
    /\ [k \in 1..Len(shader.shared_memories) |->
            [index |-> shader.shared_memories[k].index,
             size |-> shader.shared_memories[k].size]]
            = << [index |-> 0, size |-> 2], [index |-> 1, size |-> 3] >>

\* C22 witness: the switch value is shared memory 0 of length 1 and the
\* default scope declares it with length 2: the compiler's declaration is
\* the switch value's.
C22_WitnessValueFirst ==
    /\ pc = "done"
    /\ Len(shader.body.instructions) = 1
    /\ shader.body.instructions[1].value.tag = "SharedMemory"
    /\ Len(scopes[2].given.variables) = 1
    /\ Len(shader.shared_memories) = 1
    /\ shader.shared_memories[1].size = 1

----------------------------------------------------------------------------
(* The extended-metadata position of Rank, Shape and Stride (specification *)
(* SpecMeta).                                                              *)

\* The position that the k-th operation lowered, a Rank, Shape or Stride on
\* a global array, handed to the resolver: read back from the offset of its
\* instruction.
PositionPassed(k) ==
    LET name == source[k].operation.metadata.name
        offset == BodyInstructions[k].info_offset.value.v
    IN  CASE name = "Rank" -> offset - rank_index(self.metadata, 0)
          [] name = "Shape" -> offset - shape_offset_index(self.metadata, 0)
          [] name = "Stride" -> offset - stride_offset_index(self.metadata, 0)

IsExtendedLookup(k) ==
    /\ IsGlobalMetadata(k)
    /\ source[k].operation.metadata.name \in {"Rank", "Shape", "Stride"}

\* The binding that the k-th operation lowered is about.
BindingOf(k) == KernelBindings[GlobalPosition(source[k].operation.metadata.var) + 1]

\* C23 (as claimed): for every Rank, Shape or Stride on a global array that
\* is lowered, the position handed to the resolver is below num_ext and is
\* the position of the operation's own binding among the bindings with
\* extended metadata, whether or not the binding has extended metadata.
C23_PositionIsOwnExtendedSlot ==
    pc \in {"body", "done"} =>
        \A k \in 1..Len(source) :
            IsExtendedLookup(k) =>
                /\ PositionPassed(k) < self.metadata.num_extended_meta
                /\ BindingOf(k).has_extended_meta
                /\ PositionPassed(k) =
                        ExtendedAmong(GlobalPosition(source[k].operation.metadata.var))

\* What the code does: the same for the operations on a binding that has
\* extended metadata; for any binding the position is the number of
\* bindings with extended metadata before it.
C23_ExtendedBindingsOwnSlot ==
    pc \in {"body", "done"} =>
        \A k \in 1..Len(source) :
            IsExtendedLookup(k) =>
                /\ PositionPassed(k) =
                        ExtendedAmong(GlobalPosition(source[k].operation.metadata.var))
                /\ BindingOf(k).has_extended_meta =>
                        PositionPassed(k) < self.metadata.num_extended_meta

\* A Rank of input 0, which has no extended metadata, is compiled in a
\* kernel whose second binding has: the position handed over is 0, the slot
\* of the second binding.
C23_WitnessOtherSlot ==
    /\ pc = "done"
    /\ Len(KernelBindings) = 2
    /\ ~KernelBindings[1].has_extended_meta
    /\ KernelBindings[2].has_extended_meta
    /\ Len(source) = 1
    /\ source[1].operation.metadata.name = "Rank"
    /\ GlobalPosition(source[1].operation.metadata.var) = 0
    /\ PositionPassed(1) = 0
    /\ self.metadata.num_extended_meta = 1

\* A Shape of the one binding of a kernel, which has no extended metadata,
\* is compiled: the position handed over is 0 and num_ext is 0.
C23_WitnessOutOfRange ==
    /\ pc = "done"
    /\ Len(KernelBindings) = 1
    /\ ~KernelBindings[1].has_extended_meta
    /\ Len(source) = 1
    /\ source[1].operation.metadata.name = "Shape"
    /\ PositionPassed(1) = 0
    /\ self.metadata.num_extended_meta = 0

----------------------------------------------------------------------------
(* Array variables of the lowered body against their declarations          *)
(* (specification SpecArrays).                                             *)

\* The list that declares the arrays of a lowered variable's kind.
DeclarationsFor(var) ==
    IF var.tag = "SharedMemory" THEN self.shared_memories ELSE self.local_arrays

\* The lowered variable has the item and the length of a declaration of its
\* id.
AgreesWithDeclaration(var) ==
    \E d \in 1..Len(DeclarationsFor(var)) :
        /\ DeclarationsFor(var)[d].index = var.id
        /\ DeclarationsFor(var)[d].item = var.item
        /\ DeclarationsFor(var)[d].size = var.length

\* The k-th operation lowered names the array with the shape of the first
\* operation that names it.
AsFirstReference(k) ==
    \A j \in 1..k :
        (source[j].operation.variable.kind = source[k].operation.variable.kind
            /\ source[j].operation.variable.id = source[k].operation.variable.id)
        => /\ source[j].operation.variable.item = source[k].operation.variable.item
           /\ source[j].operation.variable.length
                    = source[k].operation.variable.length

\* C24 (as claimed): every SharedMemory and LocalArray variable of the
\* lowered body has the item and the length of the one declaration of its
\* id, also when the source names the id with several lengths or items.
C24_ArrayVariablesMatchDeclaration ==
    pc \in {"body", "done"} =>
        \A k \in 1..Len(BodyInstructions) :
            BodyInstructions[k].input.tag \in {"SharedMemory", "LocalArray"} =>
                AgreesWithDeclaration(BodyInstructions[k].input)

\* What the code does: the variables whose reference has the shape of the
\* first reference to the id agree with the declaration; every variable
\* has an entry of its id, and keeps the item and length of its own
\* reference.
C24_FirstShapeMatchesDeclaration ==
    pc \in {"body", "done"} =>
        /\ Len(BodyInstructions) = Len(source)
        /\ \A k \in 1..Len(BodyInstructions) :
            LET var == BodyInstructions[k].input
            IN  /\ var.tag \in {"SharedMemory", "LocalArray"}
                /\ AnyIndex(DeclarationsFor(var), var.id)
                /\ var.length = source[k].operation.variable.length
                /\ var.item = compile_item(source[k].operation.variable.item)
                /\ AsFirstReference(k) => AgreesWithDeclaration(var)

\* Shared memory 0 is read with length 4 and then with length 8: the body
\* holds a variable of length 8 and the one declaration has size 4.
C24_WitnessLength ==
    /\ pc = "done"
    /\ Len(shader.body.instructions) = 2
    /\ shader.body.instructions[1].input.tag = "SharedMemory"
    /\ shader.body.instructions[1].input.length = 4
    /\ shader.body.instructions[2].input.tag = "SharedMemory"
    /\ shader.body.instructions[2].input.id = 0
    /\ shader.body.instructions[2].input.length = 8
    /\ shader.shared_memories =
            << [index |-> 0, item |-> [vec |-> "Scalar", elem |-> "F32"],
                size |-> 4] >>

\* Local array 1 is read as scalars and then as four-lane vectors: the body
\* holds a variable of the vector item and the declaration is of scalars.
C24_WitnessItem ==
    /\ pc = "done"
    /\ Len(shader.body.instructions) = 2
    /\ shader.body.instructions[2].input.tag = "LocalArray"
    /\ shader.body.instructions[2].input.id = 1
    /\ shader.body.instructions[2].input.item = [vec |-> "Vec4", elem |-> "F32"]
    /\ Len(shader.local_arrays) = 1
    /\ shader.local_arrays[1].item = [vec |-> "Scalar", elem |-> "F32"]

----------------------------------------------------------------------------
(* The compiler's state through one compile: kernels with an extended      *)
(* input, whose bodies read built-ins, shared memories and local arrays,   *)
(* read the rank of the input, and open Ifs whose scopes hold constant     *)
(* arrays.                                                                 *)

MaxStateOps == 3    \* operations (leaf or branch) in a kernel body

StateOperations ==
    { Operation([op |-> "Copy", variable |-> v], LocalVar(0, ItemU32)) :
        v \in { BuiltinVar("AbsolutePos"), BuiltinVar("CubePos"),
                SharedOf(0, 4), SharedOf(1, 4), SharedOf(0, 8),
                LocalArrayVar(0, ArrayOfFour), LocalArrayVar(1, ArrayOfFour) } }
    \cup { Operation(MetadataOf("Rank", InputArray(0)), LocalVar(0, ItemU32)) }

OneConstArray == ConstScope(<< ConstArray(0, <<ConstantF32>>) >>)

InitState ==
    /\ InitCompiler
    /\ target_os = "linux"
    /\ mode = "Checked"
    /\ kernel \in
        { [Kernel(<<Binding(ItemF32, TRUE)>>, <<Binding(ItemF32, FALSE)>>)
                EXCEPT !.body = scope] : scope \in {EmptyScope, OneConstArray} }

LowerStateful ==
    /\ Len(source) < MaxStateOps
    /\ \E o \in StateOperations : LowerOperation(o.operation, o.out)

OpenStateful ==
    /\ Len(source) < MaxStateOps
    /\ OpenBranch("If", <<ConstantBool>>, FALSE, OneConstArray, NoOut)

NextState == Compile \/ LowerStateful \/ OpenStateful \/ CloseScope \/ Finish

SpecState == InitState /\ [][NextState]_vars

\* `before` is the front of `after`.
IsPrefix(before, after) ==
    /\ Len(before) <= Len(after)
    /\ SubSeq(after, 1, Len(before)) = before

\* C25: in every step of a compile after the body lowering has started, a
\* built-in flag that is true stays true, shared_memories, local_arrays and
\* const_arrays keep their entries in place and grow at the end only, and
\* num_inputs, num_outputs, ext_meta_pos and the metadata resolver are left
\* as they are.
C25_CompilerStateMonotonic ==
    [][ pc = "body" =>
            /\ \A flag \in Flags : self[flag] => self'[flag]
            /\ IsPrefix(self.shared_memories, self'.shared_memories)
            /\ IsPrefix(self.local_arrays, self'.local_arrays)
            /\ IsPrefix(self.const_arrays, self'.const_arrays)
            /\ self'.num_inputs = self.num_inputs
            /\ self'.num_outputs = self.num_outputs
            /\ self'.ext_meta_pos = self.ext_meta_pos
            /\ self'.metadata = self.metadata ]_vars

\* C25 witness: AbsolutePos has been read, then a shared memory, then
\* AbsolutePos again: the id flag is set, the declaration is there, and the
\* table and the resolver are those of the kernel.
C25_Witness ==
    /\ pc = "body"
    /\ Len(source) = 3
    /\ \A k \in 1..3 : source[k].operation.op = "Copy"
    /\ source[1].operation.variable = BuiltinVar("AbsolutePos")
    /\ source[3].operation.variable = BuiltinVar("AbsolutePos")
    /\ self.id
    /\ Len(self.shared_memories) = 1
    /\ self.ext_meta_pos = <<0, 1>>
    /\ self.metadata = MetadataNew(2, 1)
    /\ self.num_inputs = 1 /\ self.num_outputs = 1

\* C25 witness: the root scope and the scope of an If hold a constant array
\* each, and shared memory 0 is read with length 4 and then with length 8:
\* two constant arrays, one shared memory of size 4.
C25_WitnessLists ==
    /\ pc = "done"
    /\ Len(self.const_arrays) = 2
    /\ Len(self.shared_memories) = 1
    /\ self.shared_memories[1].size = 4
    /\ Len(source) = 3
    /\ source[1].operation.op = "Branch"
    /\ source[3].operation.op = "Copy"
    /\ source[3].operation.variable = SharedOf(0, 8)

----------------------------------------------------------------------------
(* Control flow that does nothing at run time: range loops from 0 to 0 or  *)
(* to 2, with and without a step, inclusive or not, and Returns, in        *)
(* kernels with no input or one input and one output.                      *)

MaxLoopOps == 2     \* operations (leaf or branch) in a kernel body

LoopKernels ==
    { Kernel(<<>>, <<Binding(ItemF32, FALSE)>>),
      Kernel(<<Binding(ItemF32, TRUE)>>, <<Binding(ItemF32, FALSE)>>) }

LoopBounds == { ConstantU32(0), ConstantU32(2) }

\* the operands of a RangeLoop: i, start, end, and the step when there is one
LoopOperands ==
    { << LocalVar(2, ItemU32), ConstantU32(0), end >> : end \in LoopBounds }
    \cup { << LocalVar(2, ItemU32), ConstantU32(0), end, ConstantU32(1) >> :
                end \in LoopBounds }

LoopScopes == { EmptyScope, DeclaringScope(<<>>, << LocalVar(1, ItemF32) >>) }

InitLoop ==
    /\ InitCompiler
    /\ target_os = "linux"
    /\ mode = "Checked"
    /\ kernel \in LoopKernels

OpenRangeLoop ==
    /\ Len(source) < MaxLoopOps
    /\ \E operands \in LoopOperands, inclusive \in BOOLEAN, scope \in LoopScopes :
            OpenBranch("RangeLoop", operands, inclusive, scope, NoOut)

LowerReturn ==
    /\ Len(source) < MaxLoopOps
    /\ LowerOperation(ReturnOperation, NoOut)

NextLoop == Compile \/ OpenRangeLoop \/ LowerReturn \/ CloseScope \/ Finish

SpecLoop == InitLoop /\ [][NextLoop]_vars

IsRangeLoop(instruction) == instruction.tag = "RangeLoop"

IsRangeLoopOperation(entry) ==
    entry.operation.op = "Branch" /\ entry.operation.branch.name = "RangeLoop"

\* The RangeLoop instruction is the lowering of the RangeLoop operation:
\* the same bounds, the same inclusive, a step exactly when the operation
\* has one.
LoopAsGiven(instruction, branch) ==
    /\ instruction.i.tag = "Local" /\ instruction.i.id = branch.operands[1].id
    /\ instruction.start.tag = "ConstantScalar"
    /\ instruction.start.value = branch.operands[2].value
    /\ instruction.end.tag = "ConstantScalar"
    /\ instruction.end.value = branch.operands[3].value
    /\ instruction.inclusive = branch.inclusive
    /\ IF Len(branch.operands) = 3 THEN instruction.step = NoVar
       ELSE /\ instruction.step.tag = "ConstantScalar"
            /\ instruction.step.value = branch.operands[4].value

\* C26: a compiled body has one RangeLoop instruction per RangeLoop
\* operation, in order, whatever its bounds (equal ones included), with the
\* operation's bounds and inclusive and with a step exactly when the
\* operation has one, and each loop's scope has been lowered once, into the
\* instruction's list; a body whose only operation is Return, in a kernel
\* that declares nothing, is the one Return instruction with no shared
\* memory, local array or constant array; these kernels, those with no
\* input and one output included, never fail to compile.
C26_ControlFlowKeptAsGiven ==
    /\ pc # "panicked"
    /\ pc = "done" =>
        LET loops == SelectSeq(Walk(shader.body.instructions, TRUE), IsRangeLoop)
            given == SelectSeq(source, IsRangeLoopOperation)
            lists == ScopeLists(shader.body.instructions)
        IN  /\ Len(loops) = Len(given)
            /\ \A k \in 1..Len(loops) :
                    LoopAsGiven(loops[k], given[k].operation.branch)
            /\ Len(scopes) = 1 + Len(given)
            /\ Len(lists) = Len(scopes)
            /\ \A k \in 1..Len(lists) :
                    DeclaresThenOperates(lists[k], scopes[k].given.variables)
            /\ Len(SelectSeq(Walk(shader.body.instructions, TRUE), IsOperation))
                    = Len(source)
            /\ (Len(source) = 1 /\ IsReturn(source[1])) =>
                    /\ shader.body.instructions = << [tag |-> "Return"] >>
                    /\ shader.shared_memories = <<>>
                    /\ shader.local_arrays = <<>>
                    /\ shader.constant_arrays = <<>>
            /\ shader.inputs = compile_bindings(kernel.inputs)
            /\ shader.outputs = compile_bindings(kernel.outputs)

\* C26 witness: a kernel with no input and one output whose body is an
\* inclusive RangeLoop from 0 to 0 without a step, over a scope that
\* declares a local and holds a Return: one RangeLoop instruction, inclusive,
\* without a step, holding the declaration and the Return.
C26_Witness ==
    /\ pc = "done"
    /\ kernel.inputs = <<>>
    /\ Len(shader.outputs) = 1
    /\ Len(scopes) = 2
    /\ Len(shader.body.instructions) = 1
    /\ shader.body.instructions[1].tag = "RangeLoop"
    /\ shader.body.instructions[1].start.value.v = 0
    /\ shader.body.instructions[1].end.value.v = 0
    /\ shader.body.instructions[1].inclusive
    /\ shader.body.instructions[1].step = NoVar
    /\ Tags(shader.body.instructions[1].instructions)
            = << "DeclareVariable", "Return" >>

\* C26 witness: a kernel with no input and one output whose only operation
\* is Return.
C26_WitnessReturn ==
    /\ pc = "done"
    /\ kernel.inputs = <<>>
    /\ Len(kernel.outputs) = 1
    /\ Len(source) = 1
    /\ IsReturn(source[1])
    /\ shader.body.instructions = << [tag |-> "Return"] >>
    /\ self.metadata = MetadataNew(1, 0)

----------------------------------------------------------------------------
(* Pipeline construction: <WgslCompiler as WgpuCompiler>::create_pipeline  *)
(* on the compiled kernels of kernel definitions with several inputs,      *)
(* outputs and named bindings, in both execution modes.  What the function *)
(* hands to the device (the shader-module call, the bind-group layout, the *)
(* pipeline layout, the compute-pipeline descriptor) is the record         *)
(* `pipeline`.                                                             *)

MaxPipelineBindings == 2    \* inputs of a kernel, and outputs of a kernel
MaxNamed == 1               \* named bindings of a kernel

\* CompiledKernel { source, repr }: the shader's text and the shader record,
\* or no record
CompiledKernel(repr) == [source |-> [wgsl_of |-> repr], repr |-> repr]

\* match mode: create_shader_module or create_shader_module_unchecked, on
\* the same descriptor
create_shader_module(m, text) ==
    [ call |-> IF m = "Checked" THEN "create_shader_module"
               ELSE "create_shader_module_unchecked",
      label |-> "None", source |-> text ]

BindGroupLayoutEntry(i) ==
    [ binding |-> i,
      visibility |-> "COMPUTE",
      ty |-> [ buffer |-> [storage |-> [read_only |-> FALSE]],
               has_dynamic_offset |-> FALSE,
               min_binding_size |-> "None" ],
      count |-> "None" ]

PanicPipeline == [state |-> "panicked"]

create_pipeline_without_named(compiled, m) ==
    IF compiled.repr = NoShader THEN PanicPipeline
    ELSE [ state |-> "created",
           module |-> create_shader_module(m, compiled.source),
           entries |-> [k \in 1..(Len(compiled.repr.inputs)
                                    + Len(compiled.repr.outputs)) |->
                            BindGroupLayoutEntry(k - 1)],
           push_constant_ranges |-> <<>>,
           entry_point |-> "main",
           zero_initialize_workgroup_memory |-> FALSE,
           cache |-> "None" ]

\* create_pipeline: kernel.repr.unwrap(), the shader module, the
\* num_bindings entries, the layouts, the compute pipeline
create_pipeline(compiled, m) ==
    IF compiled.repr = NoShader THEN PanicPipeline
    ELSE [ state |-> "created",
           module |-> create_shader_module(m, compiled.source),
           entries |-> [k \in 1..(Len(compiled.repr.inputs)
                                    + Len(compiled.repr.outputs)
                                    + Len(compiled.repr.named)) |->
                            BindGroupLayoutEntry(k - 1)],
           push_constant_ranges |-> <<>>,
           entry_point |-> "main",
           zero_initialize_workgroup_memory |-> FALSE,
           cache |-> "None" ]

PipelineKernels ==
    { [Kernel(inputs, outputs) EXCEPT !.named = named] :
        inputs \in SeqsUpTo({Binding(ItemF32, FALSE)}, MaxPipelineBindings),
        outputs \in SeqsUpTo({Binding(ItemF32, FALSE)}, MaxPipelineBindings),
        named \in SeqsUpTo({Binding(ItemU32, FALSE)}, MaxNamed) }

InitPipeline ==
    /\ InitCompiler
    /\ target_os = "linux"
    /\ mode = "Checked"
    /\ kernel \in PipelineKernels

\* the body of the kernel is one Return, or is empty
ReturnOnce ==
    /\ source = <<>>
    /\ LowerOperation(ReturnOperation, NoOut)

\* create_pipeline is called on the compiled kernel, or on a compiled kernel
\* that holds no shader record, in one of the execution modes
CreatePipeline ==
    /\ pc = "done"
    /\ pipeline = NoPipeline
    /\ \E m \in ExecutionModes, repr \in {shader, NoShader} :
            pipeline' = [ given |-> [mode |-> m, repr |-> repr] ]
                            @@ create_pipeline(CompiledKernel(repr), m)
    /\ UNCHANGED <<pc, target_os, mode, kernel, self, stack, source, lowered,
                   shader, scopes, calls, storage, client, matmul, arg, result>>

NextPipeline == Compile \/ ReturnOnce \/ Finish \/ CreatePipeline

SpecPipeline == InitPipeline /\ [][NextPipeline]_vars

\* C27: a pipeline that create_pipeline has built has a bind-group layout of
\* inputs + outputs + named entries, numbered from 0 without a gap, each a
\* compute-visible read-write storage buffer without dynamic offset or
\* minimum size; its shader module was created with the validating call
\* exactly when the mode is Checked and with the unchecked call exactly when
\* it is Unchecked; its entry point is main and zero-initialization of
\* workgroup memory is off.
C27_PipelineAsDescribed ==
    pipeline.state = "created" =>
        LET repr == pipeline.given.repr
        IN  /\ Len(pipeline.entries)
                    = Len(kernel.inputs) + Len(kernel.outputs) + Len(kernel.named)
            /\ Len(pipeline.entries)
                    = Len(repr.inputs) + Len(repr.outputs) + Len(repr.named)
            /\ \A k \in 1..Len(pipeline.entries) :
                    /\ pipeline.entries[k].binding = k - 1
                    /\ pipeline.entries[k].visibility = "COMPUTE"
                    /\ pipeline.entries[k].ty.buffer
                            = [storage |-> [read_only |-> FALSE]]
                    /\ ~pipeline.entries[k].ty.has_dynamic_offset
                    /\ pipeline.entries[k].ty.min_binding_size = "None"
            /\ pipeline.module.call = "create_shader_module"
                    <=> pipeline.given.mode = "Checked"
            /\ pipeline.module.call = "create_shader_module_unchecked"
                    <=> pipeline.given.mode = "Unchecked"
            /\ pipeline.entry_point = "main"
            /\ ~pipeline.zero_initialize_workgroup_memory

\* C27 witness: the pipeline of a kernel with two inputs, one output and one
\* named binding, in Unchecked mode: four entries, 0 to 3, and the unchecked
\* shader-module call.
C27_Witness ==
    /\ pipeline.state = "created"
    /\ Len(kernel.inputs) = 2 /\ Len(kernel.outputs) = 1 /\ Len(kernel.named) = 1
    /\ pipeline.given.mode = "Unchecked"
    /\ Len(pipeline.entries) = 4
    /\ pipeline.entries[4].binding = 3
    /\ pipeline.module.call = "create_shader_module_unchecked"

\* C27 witness: the same kernel in Checked mode: the validating call.
C27_WitnessChecked ==
    /\ pipeline.state = "created"
    /\ Len(kernel.inputs) = 2 /\ Len(kernel.outputs) = 1 /\ Len(kernel.named) = 1
    /\ pipeline.given.mode = "Checked"
    /\ Len(pipeline.entries) = 4
    /\ pipeline.module.call = "create_shader_module"

----------------------------------------------------------------------------
(* WgpuStorage (crates/cubecl-wgpu/src/compute/storage.rs, the build that  *)
(* is not wasm32 with atomics): the memory map from StorageId to buffer    *)
(* and the list of ids tagged for deallocation are the record `storage`;   *)
(* `client` holds what the callers and the device see: the ids issued by   *)
(* StorageId::new, the handles alloc returned, the buffers destroyed, the  *)
(* last call with its outcome, and whether a call panicked.                *)

MaxAllocs == 2      \* calls of alloc
MaxTags == 3        \* ids tagged and not yet deallocated
MaxSize == 2        \* size of a buffer, in bytes

\* StorageHandle::new(id, StorageUtilization { offset, size })
StorageHandle(id, offset, size) == [id |-> id, offset |-> offset, size |-> size]

\* WgpuResource::new(buffer, offset, size)
WgpuResource(buffer, offset, size) ==
    [buffer |-> buffer, offset |-> offset, size |-> size]

\* self.memory.remove(&id)
Removed(memory, id) == [k \in DOMAIN memory \ {id} |-> memory[k]]

perform_deallocations_keeps_buffers(memory, destroyed, ids) ==
    [memory |-> memory, destroyed |-> destroyed, deallocations |-> <<>>]

\* perform_deallocations: each drained id is removed from the map, and a
\* buffer that was there is destroyed
RECURSIVE perform_deallocations(_, _, _)
perform_deallocations(memory, destroyed, ids) ==
    IF ids = <<>>
    THEN [memory |-> memory, destroyed |-> destroyed, deallocations |-> <<>>]
    ELSE IF Head(ids) \in DOMAIN memory
         THEN perform_deallocations(Removed(memory, Head(ids)),
                                    destroyed \cup {memory[Head(ids)].buffer},
                                    Tail(ids))
         ELSE perform_deallocations(memory, destroyed, Tail(ids))

\* Panics of the storage's callers: expect and unwrap on None
Failed == [ok |-> FALSE]
Returning(value) == [ok |-> TRUE, value |-> value]

\* ComputeStorage::get: self.memory.get(&handle.id).unwrap(), then the
\* resource over the buffer with the handle's offset and size
get(memory, handle) ==
    IF handle.id \notin DOMAIN memory THEN Failed
    ELSE Returning(WgpuResource(memory[handle.id].buffer, handle.offset,
                                handle.size))

as_wgpu_bind_resource_any_size(resource) ==
    Returning([buffer |-> resource.buffer, offset |-> resource.offset,
               size |-> resource.size])

\* WgpuResource::as_wgpu_bind_resource: NonZeroU64::new(self.size).expect(..)
as_wgpu_bind_resource(resource) ==
    IF resource.size = 0 THEN Failed
    ELSE Returning([buffer |-> resource.buffer, offset |-> resource.offset,
                    size |-> resource.size])

\* a call returned, or panicked
Answered(name, argument, answer) ==
    [client EXCEPT !.last = [called |-> name, arg |-> argument] @@ answer,
                   !.panicked = ~answer.ok]

CompilerAsIs ==
    UNCHANGED <<pc, target_os, mode, kernel, self, stack, source, lowered,
                shader, scopes, calls, pipeline, matmul, arg, result>>

\* ComputeStorage::alloc
Alloc(size) ==
    /\ ~client.panicked
    /\ client.ids < MaxAllocs
    /\ LET id == client.ids
           handle == StorageHandle(id, 0, size)
       IN  /\ storage' = [storage EXCEPT
                    !.memory = (id :> [buffer |-> id, size |-> size]) @@ @]
           /\ client' = [Answered("alloc", size, Returning(handle)) EXCEPT
                    !.ids = id + 1, !.handles = @ \cup {handle}]
    /\ CompilerAsIs

\* ComputeStorage::dealloc
Dealloc(id) ==
    /\ ~client.panicked
    /\ Len(storage.deallocations) < MaxTags
    /\ storage' = [storage EXCEPT !.deallocations = Append(@, id)]
    /\ client' = Answered("dealloc", id, Returning(id))
    /\ CompilerAsIs

Performed(after) ==
    /\ storage' = [memory |-> after.memory, deallocations |-> after.deallocations]
    /\ client' = [Answered("perform_deallocations", <<>>, Returning(<<>>)) EXCEPT
                    !.destroyed = after.destroyed]

\* WgpuStorage::perform_deallocations
PerformDeallocations ==
    /\ ~client.panicked
    /\ Performed(perform_deallocations(storage.memory, client.destroyed,
                                       storage.deallocations))
    /\ CompilerAsIs

\* The handles a caller may hand to get: those alloc returned, and the
\* handle of the bytes after the first of such a buffer.
Handles ==
    client.handles
        \cup { StorageHandle(h.id, 1, h.size - 1) : h \in {g \in client.handles : g.size > 0} }

\* ComputeStorage::get
Get(handle) ==
    /\ ~client.panicked
    /\ storage' = storage
    /\ client' = Answered("get", handle, get(storage.memory, handle))
    /\ CompilerAsIs

\* as_wgpu_bind_resource on the resource that get returned last
Bind ==
    /\ ~client.panicked
    /\ client.last.called = "get"
    /\ storage' = storage
    /\ client' = Answered("as_wgpu_bind_resource", client.last.value,
                          as_wgpu_bind_resource(client.last.value))
    /\ CompilerAsIs

InitStorage ==
    /\ InitCompiler
    /\ target_os = "linux"
    /\ mode = "Checked"
    /\ kernel = Kernel(<<>>, <<Binding(ItemF32, FALSE)>>)

AllocSome == \E size \in 0..MaxSize : Alloc(size)

\* an id that alloc returned, or one that it did not
DeallocSome == \E id \in 0..MaxAllocs : Dealloc(id)

GetSome == \E handle \in Handles : Get(handle)

NextStorage == AllocSome \/ DeallocSome \/ PerformDeallocations \/ GetSome

SpecStorage == InitStorage /\ [][NextStorage]_vars

\* C28: a step that tags an id leaves the memory map and the buffers as they
\* are and fails nothing, whatever the id (tagged before, or unknown); an
\* entry leaves the memory map only in a step that empties a list of tagged
\* ids, and that step removes exactly the tagged ids, destroys their
\* buffers only, leaves the other entries as they were and fails nothing;
\* get on a handle succeeds exactly when the handle's id is in the map, so
\* for a tagged id until such a step.
C28_DeallocationIsDeferred ==
    [][ LET memory == storage.memory
            tagged == storage.deallocations
        IN  /\ Len(storage'.deallocations) > Len(tagged) =>
                    /\ storage'.memory = memory
                    /\ SubSeq(storage'.deallocations, 1, Len(tagged)) = tagged
                    /\ client'.destroyed = client.destroyed
                    /\ ~client'.panicked
            /\ ~(DOMAIN memory \subseteq DOMAIN storage'.memory) =>
                    tagged # <<>> /\ storage'.deallocations = <<>>
            /\ (tagged # <<>> /\ Len(storage'.deallocations) <= Len(tagged)
                    /\ storage'.deallocations # tagged) =>
                    /\ storage'.deallocations = <<>>
                    /\ DOMAIN storage'.memory = DOMAIN memory \ Range(tagged)
                    /\ \A id \in DOMAIN storage'.memory :
                            storage'.memory[id] = memory[id]
                    /\ client'.destroyed
                            = client.destroyed \cup (DOMAIN memory \cap Range(tagged))
                    /\ ~client'.panicked
            /\ client'.last.called = "get" =>
                    /\ client'.last.ok <=> client'.last.arg.id \in DOMAIN memory
                    /\ client'.last.ok =>
                            client'.last.value
                                = WgpuResource(memory[client'.last.arg.id].buffer,
                                               client'.last.arg.offset,
                                               client'.last.arg.size)
            /\ (client'.panicked /\ ~client.panicked) => client'.last.called = "get"
      ]_vars

\* C28 witness: id 0 is tagged twice and the unknown id 2 once, nothing is
\* deallocated yet, and get on the handle of id 0 has just succeeded.
C28_Witness ==
    /\ storage.deallocations = <<0, 0, 2>>
    /\ DOMAIN storage.memory = {0, 1}
    /\ client.last.called = "get"
    /\ client.last.ok
    /\ client.last.arg.id = 0
    /\ ~client.panicked

\* C28 witness: after perform_deallocations buffer 0 is gone and destroyed,
\* buffer 1 is there, and nothing is tagged.
C28_WitnessPerformed ==
    /\ client.last.called = "perform_deallocations"
    /\ DOMAIN storage.memory = {1}
    /\ client.destroyed = {0}
    /\ storage.deallocations = <<>>
    /\ ~client.panicked

----------------------------------------------------------------------------
(* A resource of size 0, from the kernel's binding to the wgpu binding: a  *)
(* kernel whose output binding has a size of 0 or more is compiled, and    *)
(* buffers of size 0 or more are allocated, looked up and bound.           *)

SizedBinding(size) == [Binding(ItemF32, FALSE) EXCEPT !.size = size]

InitResource ==
    /\ InitCompiler
    /\ target_os = "linux"
    /\ mode = "Checked"
    /\ kernel \in { Kernel(<<>>, <<SizedBinding(size)>>) : size \in 0..MaxSize }

NextResource == Compile \/ ReturnOnce \/ Finish \/ AllocSome \/ GetSome \/ Bind

SpecResource == InitResource /\ [][NextResource]_vars

\* C29: as_wgpu_bind_resource fails exactly for a resource of size 0, and
\* otherwise returns a binding of the resource's buffer with the resource's
\* offset and size; compiling a kernel whose binding has size 0 does not
\* fail and keeps the size, alloc returns a handle of the size asked for,
\* 0 included, get returns a resource of the handle's offset and size,
\* 0 included, and nothing but the binding of a resource of size 0 fails.
C29_ZeroSizeFailsOnlyWhenBound ==
    /\ pc # "panicked"
    /\ pc = "done" => shader.outputs[1].size = kernel.outputs[1].size
    /\ client.last.called = "alloc" =>
            /\ client.last.ok
            /\ client.last.value.size = client.last.arg
            /\ client.last.value.offset = 0
            /\ client.last.value.id \in DOMAIN storage.memory
    /\ client.last.called = "get" =>
            /\ client.last.ok
            /\ client.last.value.size = client.last.arg.size
            /\ client.last.value.offset = client.last.arg.offset
    /\ client.last.called = "as_wgpu_bind_resource" =>
            /\ client.last.ok <=> client.last.arg.size > 0
            /\ client.last.ok =>
                    client.last.value
                        = [buffer |-> client.last.arg.buffer,
                           offset |-> client.last.arg.offset,
                           size |-> client.last.arg.size]
    /\ client.panicked =>
            /\ client.last.called = "as_wgpu_bind_resource"
            /\ client.last.arg.size = 0

\* C29 witness: a kernel whose binding has size 0 is compiled, a buffer of
\* size 0 was allocated and looked up, and binding the resource failed.
C29_Witness ==
    /\ pc = "done"
    /\ kernel.outputs[1].size = 0
    /\ shader.outputs[1].size = 0
    /\ client.last.called = "as_wgpu_bind_resource"
    /\ client.last.arg.size = 0
    /\ client.last.arg.offset = 0
    /\ ~client.last.ok
    /\ client.panicked

\* C29 witness: a resource of size 1 at offset 1 is bound with that offset
\* and size.
C29_WitnessBound ==
    /\ client.last.called = "as_wgpu_bind_resource"
    /\ client.last.ok
    /\ client.last.value.offset = 1
    /\ client.last.value.size = 1

\* C29 witness: the resource of size 0 that fails is one that get returned
\* for the bytes after the first of a buffer of size 1.
C29_WitnessEmptySlice ==
    /\ client.last.called = "as_wgpu_bind_resource"
    /\ ~client.last.ok
    /\ client.last.arg.offset = 1

----------------------------------------------------------------------------
(* The homogeneous global matmul                                           *)
(* (crates/cubecl-linalg/src/matmul/components/global/homogeneous.rs):     *)
(* every unit of a cube runs Matmul::execute on the same k_range. The      *)
(* loaders, the stage matmul and the unloader are collaborators: a call of *)
(* one of them is one step of the unit, written to the unit's trace.       *)
(* sync_units is the workgroup barrier (compile_operation lowers SyncUnits *)
(* to WorkgroupBarrier): a unit that has arrived at its n-th barrier goes  *)
(* on when every unit of the cube has arrived at its n-th barrier.         *)

MaxUnits == 2       \* units of the cube
MaxK == 3           \* upper end of k_range
MaxStageK == 2      \* SMM::K

Units == 1..MaxUnits

LoopBody_without_first_sync ==
    <<"fill_lhs", "fill_rhs", "execute", "sync_units", "advance_lhs",
      "advance_rhs">>

\* the statements of the body of `for _ in 0..num_loops`
LoopBody ==
    <<"fill_lhs", "fill_rhs", "sync_units", "execute", "sync_units",
      "advance_lhs", "advance_rhs">>

\* let range = k_range.1 - k_range.0; (range + k_step - 1) / k_step
num_loops(k_range, k_step) ==
    ((k_range[2] - k_range[1]) + k_step - 1) \div k_step

\* a unit at the start of execute
UnitAtStart ==
    [at |-> "acc_init", stmt |-> 0, i |-> 0, syncs |-> 0, waiting |-> FALSE,
     trace |-> <<>>]

\* the cube at the start of execute
Launched(k_range, k_step) ==
    [state |-> "running", k_range |-> k_range, k_step |-> k_step,
     num_loops |-> num_loops(k_range, k_step),
     units |-> [u \in Units |-> UnitAtStart]]

\* the unit has made the call named and goes to the next statement
Did(unit, call) ==
    IF unit.stmt < Len(LoopBody)
    THEN [unit EXCEPT !.stmt = @ + 1, !.trace = Append(@, call)]
    ELSE [unit EXCEPT !.at = "for", !.stmt = 0, !.i = @ + 1,
                      !.trace = Append(@, call)]

\* the unit is at the statement named, of the loop body
AtStatement(unit, call) ==
    /\ unit.at = "body"
    /\ ~unit.waiting
    /\ unit.stmt \in 1..Len(LoopBody)
    /\ LoopBody[unit.stmt] = call

\* workgroupBarrier: every unit has arrived at the barrier the unit waits at
BarrierOpen(units, u) ==
    \A v \in DOMAIN units : units[v].syncs >= units[u].syncs

UnitBecomes(u, unit) ==
    /\ matmul' = [matmul EXCEPT !.units[u] = unit]
    /\ UNCHANGED <<pc, target_os, mode, kernel, self, stack, source, lowered,
                   shader, scopes, calls, pipeline, storage, client, arg,
                   result>>

Running(u) == matmul.state = "running" /\ u \in Units

\* let mut acc = SMM::acc_init_zeros(..)
AccInit(u) ==
    /\ Running(u)
    /\ matmul.units[u].at = "acc_init"
    /\ UnitBecomes(u, [matmul.units[u] EXCEPT !.at = "for",
                                             !.trace = Append(@, "acc_init")])

\* for _ in 0..num_loops
ForLoop(u) ==
    /\ Running(u)
    /\ matmul.units[u].at = "for"
    /\ UnitBecomes(u, IF matmul.units[u].i < matmul.num_loops
                      THEN [matmul.units[u] EXCEPT !.at = "body", !.stmt = 1]
                      ELSE [matmul.units[u] EXCEPT !.at = "acc_read"])

\* LhsLoader::fill_stage, RhsLoader::fill_stage
FillStage(u) ==
    /\ Running(u)
    /\ \E call \in {"fill_lhs", "fill_rhs"} :
            /\ AtStatement(matmul.units[u], call)
            /\ UnitBecomes(u, Did(matmul.units[u], call))

\* sync_units(): the unit arrives at the barrier
SyncArrive(u) ==
    /\ Running(u)
    /\ AtStatement(matmul.units[u], "sync_units")
    /\ UnitBecomes(u, [matmul.units[u] EXCEPT !.waiting = TRUE, !.syncs = @ + 1])

\* sync_units(): the unit leaves the barrier
SyncPass(u) ==
    /\ Running(u)
    /\ matmul.units[u].waiting
    /\ BarrierOpen(matmul.units, u)
    /\ UnitBecomes(u, Did([matmul.units[u] EXCEPT !.waiting = FALSE], "sync_units"))

\* SMM::execute(lhs_stage_reader, rhs_stage_reader, &mut acc, ..)
StageExecute(u) ==
    /\ Running(u)
    /\ AtStatement(matmul.units[u], "execute")
    /\ UnitBecomes(u, Did(matmul.units[u], "execute"))

\* LhsLoader::advance_view, RhsLoader::advance_view
AdvanceView(u) ==
    /\ Running(u)
    /\ \E call \in {"advance_lhs", "advance_rhs"} :
            /\ AtStatement(matmul.units[u], call)
            /\ UnitBecomes(u, Did(matmul.units[u], call))

\* SMM::acc_read(&acc, &mut out_unloader, ..)
AccRead(u) ==
    /\ Running(u)
    /\ matmul.units[u].at = "acc_read"
    /\ UnitBecomes(u, [matmul.units[u] EXCEPT !.at = "done",
                                             !.trace = Append(@, "acc_read")])

\* the ranges of k with k_range.0 <= k_range.1
KRanges == { r \in (0..MaxK) \X (0..MaxK) : r[1] <= r[2] }

InitMatmul ==
    /\ FreshCompile
    /\ target_os = "linux"
    /\ mode = "Checked"
    /\ kernel = Kernel(<<>>, <<Binding(ItemF32, FALSE)>>)
    /\ pipeline = NoPipeline
    /\ storage = WgpuStorageNew
    /\ client = NoClient
    /\ matmul \in { Launched(k_range, k_step) :
                        k_range \in KRanges, k_step \in 1..MaxStageK }

NextMatmul ==
    \E u \in Units :
        \/ AccInit(u)
        \/ ForLoop(u)
        \/ FillStage(u)
        \/ SyncArrive(u)
        \/ SyncPass(u)
        \/ StageExecute(u)
        \/ AdvanceView(u)
        \/ AccRead(u)

SpecMatmul == InitMatmul /\ [][NextMatmul]_vars

\* how often the call is in the trace
RECURSIVE Count(_, _)
Count(trace, call) ==
    IF trace = <<>> THEN 0
    ELSE (IF Head(trace) = call THEN 1 ELSE 0) + Count(Tail(trace), call)

IterationAsClaimed ==
    <<"fill_lhs", "fill_rhs", "sync_units", "execute", "sync_units",
      "advance_lhs", "advance_rhs">>

RECURSIVE Iterations(_)
Iterations(n) == IF n = 0 THEN <<>> ELSE IterationAsClaimed \o Iterations(n - 1)

\* ceil(range / k) of naturals, k > 0: the least n with n * k >= range
Ceil(range, k) == CHOOSE n \in 0..range : n * k >= range /\ \A j \in 0..(n - 1) : j * k < range

TraceOf(u) == matmul.units[u].trace

\* C30: num_loops is ceil((k_range.1 - k_range.0) / SMM::K); the calls of
\* every unit are acc_init, then per iteration fill lhs, fill rhs,
\* sync_units, stage matmul, sync_units, advance lhs, advance rhs, then one
\* acc_read after num_loops iterations; no unit has run the stage matmul of
\* an iteration that some unit has not filled both stages for, and no unit
\* has filled a stage for an iteration while some unit has not run the
\* stage matmul of the iteration before.
C30_StagesAreSynchronised ==
    matmul.state = "running" =>
        /\ matmul.num_loops = Ceil(matmul.k_range[2] - matmul.k_range[1], matmul.k_step)
        /\ \A u \in Units :
            /\ IsPrefix(TraceOf(u),
                        <<"acc_init">> \o Iterations(matmul.num_loops) \o <<"acc_read">>)
            /\ matmul.units[u].at = "done" =>
                    TraceOf(u) = <<"acc_init">> \o Iterations(matmul.num_loops)
                                    \o <<"acc_read">>
            /\ Count(TraceOf(u), "acc_read") = 1 =>
                    Count(TraceOf(u), "execute") = matmul.num_loops
        /\ \A u, v \in Units :
            /\ Count(TraceOf(u), "execute") <= Count(TraceOf(v), "fill_lhs")
            /\ Count(TraceOf(u), "execute") <= Count(TraceOf(v), "fill_rhs")
            /\ Count(TraceOf(u), "fill_lhs") <= Count(TraceOf(v), "execute") + 1
            /\ Count(TraceOf(u), "fill_rhs") <= Count(TraceOf(v), "execute") + 1

\* C30 witness: k_range (0, 3) with SMM::K = 2 gives two iterations, and
\* every unit has read the accumulator out after both.
C30_Witness ==
    /\ matmul.state = "running"
    /\ matmul.k_range = <<0, 3>>
    /\ matmul.k_step = 2
    /\ matmul.num_loops = 2
    /\ \A u \in Units :
            /\ matmul.units[u].at = "done"
            /\ Count(TraceOf(u), "execute") = 2
            /\ Count(TraceOf(u), "sync_units") = 4

\* C30 witness: unit 1 waits at the second barrier of the first iteration
\* while unit 2 has not yet run the stage matmul of that iteration.
C30_WitnessWaiting ==
    /\ matmul.state = "running"
    /\ matmul.units[1].waiting
    /\ matmul.units[1].syncs = 2
    /\ ~BarrierOpen(matmul.units, 1)
    /\ Count(TraceOf(2), "execute") = 0
    /\ Count(TraceOf(2), "fill_rhs") = 1

====
